---------------------------- MODULE Spec2Model ----------------------------
(***************************************************************************)
(* Model of the disk manager of embroidery-buddy                           *)
(* (internal/diskmanager): the Manager that serialises transactions on a   *)
(* FAT32 disk image and brackets them with a disconnect / reconnect of the *)
(* USB gadget, the two gadget implementations (NoOpUsbGadget and           *)
(* LinuxUsbGadget) and the path normalisation.                             *)
(*                                                                         *)
(* Strings are sequences of one-character strings, file contents are       *)
(* sequences of bytes.  Callers are the goroutines 1..NumProcs; each       *)
(* variable indexed by a goroutine is that goroutine's position in, and    *)
(* the locals of, the Manager method it is executing.                      *)
(***************************************************************************)
EXTENDS Naturals, Sequences, FiniteSets, TLC

\* ------------------------------------------------------------------ bounds
\* Number of goroutines calling into one Manager.
NumProcs == 2
\* Most transactions the simulated gadget counts between two ResetCounts.
MaxTx == 2
\* Longest byte sequence offered as the source of a WriteFile.
MaxLen == 2
\* Most WriteFile calls one transaction body makes.
MaxWrites == 2

\* The most direct calls of Disconnect, and of Reconnect, that the simulated
\* gadget counts between two ResetCounts.
MaxCalls == 2

\* The longest argument of normalizePath, and how often it is applied to
\* its own result.
MaxPathLen == 5
MaxApply == 2

Procs == 1..NumProcs

\* Byte values used in file contents (0x00 and 0xFF: binary, non-ASCII).
Bytes == {0, 255}

RECURSIVE SeqsUpTo(_, _)
SeqsUpTo(S, n) ==
    IF n = 0 THEN {<<>>}
    ELSE LET shorter == SeqsUpTo(S, n - 1)
         IN  shorter \cup {Append(s, x) : s \in {t \in shorter : Len(t) = n - 1}, x \in S}

\* File contents and sources: the byte sequences of up to MaxLen bytes in
\* which the two byte values alternate (the empty sequence included).
Contents ==
    {s \in SeqsUpTo(Bytes, MaxLen) : \A i \in 1..(Len(s) - 1) : s[i] # s[i + 1]}

\* ------------------------------------------------------------- path strings
Root == <<"/">>

HasPrefixSlash(p) == Len(p) > 0 /\ p[1] = "/"

\* The backtracking step of path.Clean on a ".." element: drop the last
\* element of out, never going below the index dotdot.
RECURSIVE CleanBacktrack(_, _, _)
CleanBacktrack(out, w, dotdot) ==
    IF w > dotdot /\ out[w + 1] # "/"
    THEN CleanBacktrack(out, w - 1, dotdot)
    ELSE SubSeq(out, 1, w)

\* Index of the first "/" of path at or after r (Len(path) + 1 when none).
RECURSIVE ElementEnd(_, _)
ElementEnd(path, r) ==
    IF r > Len(path) \/ path[r] = "/" THEN r ELSE ElementEnd(path, r + 1)

\* The main loop of path.Clean: r is the next index to read, out the
\* output written so far, dotdot the length of the prefix that ".." may
\* not remove.
RECURSIVE CleanLoop(_, _, _, _, _)
CleanLoop(path, r, out, dotdot, rooted) ==
    LET n == Len(path) IN
    IF r > n THEN out
    ELSE IF path[r] = "/"
    THEN CleanLoop(path, r + 1, out, dotdot, rooted)
    ELSE IF path[r] = "." /\ (r = n \/ path[r + 1] = "/")
    THEN CleanLoop(path, r + 1, out, dotdot, rooted)
    ELSE IF path[r] = "." /\ path[r + 1] = "." /\ (r + 1 = n \/ path[r + 2] = "/")
    THEN IF Len(out) > dotdot
         THEN CleanLoop(path, r + 2, CleanBacktrack(out, Len(out) - 1, dotdot),
                        dotdot, rooted)
         ELSE IF ~rooted
         THEN LET o2 == (IF Len(out) > 0 THEN Append(out, "/") ELSE out) \o <<".", ".">>
              IN  CleanLoop(path, r + 2, o2, Len(o2), rooted)
         ELSE CleanLoop(path, r + 2, out, dotdot, rooted)
    ELSE LET e  == ElementEnd(path, r)
             o2 == IF (rooted /\ Len(out) # 1) \/ (~rooted /\ Len(out) # 0)
                   THEN Append(out, "/") ELSE out
         IN  CleanLoop(path, e, o2 \o SubSeq(path, r, e - 1), dotdot, rooted)

\* path.Clean of the Go standard library, as called by normalizePath.
Clean(path) ==
    IF path = <<>> THEN <<".">>
    ELSE LET rooted == path[1] = "/"
             out    == IF rooted
                       THEN CleanLoop(path, 2, Root, 1, TRUE)
                       ELSE CleanLoop(path, 1, <<>>, 0, FALSE)
         IN  IF out = <<>> THEN <<".">> ELSE out

\* Variant: only the leading "/" is added and one trailing "/" removed.
normalizePathTrimOnce(p) ==
    LET q == IF HasPrefixSlash(p) THEN p ELSE Root \o p
    IN  IF Len(q) > 1 /\ q[Len(q)] = "/" THEN SubSeq(q, 1, Len(q) - 1) ELSE q

\* Variant: the path is cleaned as given, without the leading "/".
normalizePathNoPrefix(p) == Clean(p)

\* normalizePath: prefix with "/" when missing, then clean.
normalizePath(p) ==
    Clean(IF HasPrefixSlash(p) THEN p ELSE Root \o p)

\* Index of the last "/" of p (0 when none).
RECURSIVE LastSlash(_, _)
LastSlash(p, i) ==
    IF i = 0 THEN 0 ELSE IF p[i] = "/" THEN i ELSE LastSlash(p, i - 1)

\* path.Dir: everything up to the last "/", cleaned.
Dir(p) == Clean(SubSeq(p, 1, LastSlash(p, Len(p))))

\* path.Base of a cleaned absolute path: the last element ("/" for the root).
Base(p) ==
    IF p = Root THEN Root ELSE SubSeq(p, LastSlash(p, Len(p)) + 1, Len(p))


\* ------------------------------------------------------------------- state
VARIABLES
    mgr,        \* "none" before construction, "ready" after a successful New,
                \* "literal" for a bare &Manager{}, "failed" after New failed
    fsOpen,     \* Manager.filesystem # nil
    gadget,     \* the UsbGadget object held in Manager.gadget
    sysfs,      \* the configfs tree of the gadget and its UDC attribute
    files,      \* the files of the disk image: normalised path -> content
    dirs,       \* the directories of the disk image other than the root
    muWriter,   \* Manager.mu: the goroutine holding the write lock, or 0
    muReaders,  \* Manager.mu: the goroutines holding a read lock
    pc,         \* position of each goroutine in the method it executes
    ret,        \* result of the method each goroutine executes
    ev,         \* per call: the gadget calls made and fn's exit, in order
    nw,         \* per call: the WriteFile calls fn has made so far
    rdPath,     \* per call: the path argument of ReadFile
    lastWrite,  \* the most recent WriteFile, when it succeeded with
                \* size = len(source): its path argument and its bytes
    wlog,       \* per transaction: the WriteFile call fn has just made
                \* (path argument, source, size, fault met, error, whether
                \* the path held no file before), whether the most recent
                \* call failed, and what the files written successfully
                \* and not written again held when their call returned
    leak,       \* the goroutines that kept the Transaction handle of a
                \* BeginTransaction beyond fn, and the last WriteFile made
                \* through such a handle after that call had returned
    txDone,     \* on the simulated gadget: the transactions that ran fn and
                \* returned since ResetCounts
    gop,        \* the most recent operation on the gadget (New, Close or a
                \* direct call of a gadget method) and what it met
    ginit,      \* direct calls: "never", "failed" or "ok", the outcome of
                \* the gadget's Initialize so far
    gdead,      \* direct calls: destroy has been called since the last
                \* Initialize
    npIn,       \* normalizePath: the argument
    npOut,      \* normalizePath: the results of applying it to npIn once,
                \* twice, ... (<<>> before the first call)
    hexIn,      \* a configured identifier: the hex digits after "0x"
    hexOut,     \* what became of it: rejected by ParseHex, or the value
                \* and the text Initialize writes for it
    wrIn,       \* FilesystemWriter.WriteFile: path, source and size
    wrOut,      \* the filesystem and error each variant leaves for wrIn
    macIn,      \* FormatMAC: the address text and the requested format
    macOut,     \* FormatMAC: whether it was called, and the text it returned
    lw,         \* LoopbackFilesystemWriter: mountDir (0 for ""), the
                \* temporary directories it made that exist, those the
                \* image is mounted on, the files of the image and of the
                \* directories themselves, and the last call made
    stream      \* a stream ReadFile returned and its caller keeps: the
                \* goroutine, the path, the bytes the file held when it
                \* was opened, and the last read made from it

vars == <<mgr, fsOpen, gadget, sysfs, files, dirs, muWriter, muReaders,
          pc, ret, ev, nw, rdPath, lastWrite, wlog, leak, txDone, gop, ginit,
          gdead,
          npIn, npOut, hexIn, hexOut, wrIn, wrOut,
          macIn, macOut, lw, stream>>

\* The arguments, states and results of what is checked on its own.
xvars == <<macIn, macOut, lw, stream>>

fvars == <<hexIn, hexOut, wrIn, wrOut, xvars>>

\* The variables of the direct calls of the gadget and of normalizePath.
hvars == <<gop, ginit, gdead, npIn, npOut, fvars>>

NoRet   == [err |-> "none", data |-> <<>>]
Err(e)  == [err |-> e, data |-> <<>>]
NoWrite == [path |-> <<"?">>, data |-> <<>>, valid |-> FALSE]
NoPath  == <<"?">>
NoCall  == [path |-> <<"?">>, src |-> <<>>, size |-> 0, fault |-> "none",
            err |-> "none", fresh |-> FALSE]
NoLog   == [last |-> NoCall, failed |-> FALSE, kept |-> <<>>]
NoHex   == [state |-> "none", val |-> 0, text |-> <<>>]
NoWrIn  == [path |-> <<"?">>, src |-> <<>>, size |-> 0]
NoWrOut == [diskfs   |-> [fs |-> [files |-> <<>>, dirs |-> {}], err |-> "none"],
            loopback |-> [fs |-> [files |-> <<>>, dirs |-> {}], err |-> "none"]]
NoMac   == [mac |-> <<>>, format |-> "MACFormatColon"]
NoMacOut == [done |-> FALSE, text |-> <<>>]
NoLwCall == [op |-> "none", err |-> "none", pre |-> 0, wasBegun |-> FALSE,
             changed |-> FALSE]
NoLoopback == [mountDir |-> 0, made |-> 0, tmpDirs |-> {}, mounts |-> {},
               image |-> [files |-> <<>>, dirs |-> {}],
               stray |-> <<>>,
               begun |-> FALSE, last |-> NoLwCall]
NoRead  == [done |-> FALSE, bytes |-> <<>>, duringFn |-> FALSE,
            lockHeld |-> FALSE, rewritten |-> FALSE]
NoStream == [state |-> "none", owner |-> 0, path |-> <<"?">>, data |-> <<>>,
             last |-> NoRead]
NoLeak  == [held |-> {}, called |-> FALSE, changed |-> FALSE, locked |-> FALSE,
            connected |-> FALSE]

\* The sentinel errors of manager.go and the wrapped ones it builds.
ErrDiskNotInitialized == "ErrDiskNotInitialized"
ErrFileNotFound       == "ErrFileNotFound"
ErrDisconnectWrapped  == "failed to disconnect USB gadget"
ErrOpenWrapped        == "failed to open file"
ErrEnsureDirWrapped   == "failed to ensure directory"
ErrCreateWrapped      == "failed to create file"
ErrWriteWrapped       == "failed to write file"
ErrDiskFull           == "ErrDiskFull"
ErrInvalidPath        == "ErrInvalidPath"

\* ------------------------------------------------------------ the gadgets
NilGadget ==
    [kind |-> "nil", connected |-> FALSE, udcName |-> "",
     disconnectCalls |-> 0, reconnectCalls |-> 0]

NewNoOpUsbGadget ==
    [kind |-> "NoOp", connected |-> FALSE, udcName |-> "",
     disconnectCalls |-> 0, reconnectCalls |-> 0]

NewLinuxUsbGadget ==
    [kind |-> "Linux", connected |-> FALSE, udcName |-> "",
     disconnectCalls |-> 0, reconnectCalls |-> 0]

\* Every gadget operation yields the gadget and the configfs tree after it
\* and whether it returned an error.
Out(g, s, e) == [g |-> g, s |-> s, err |-> e]

NoOpInitialize(g, s) == Out([g EXCEPT !.connected = TRUE], s, FALSE)

\* Variant: Disconnect counts the call but leaves the link up.
NoOpDisconnectKeepsLink(g, s) ==
    Out([g EXCEPT !.disconnectCalls = @ + 1], s, FALSE)

NoOpDisconnect(g, s) ==
    Out([g EXCEPT !.disconnectCalls = @ + 1, !.connected = FALSE], s, FALSE)

\* Variant: Reconnect restores the link but does not count the call.
NoOpReconnectNoCount(g, s) == Out([g EXCEPT !.connected = TRUE], s, FALSE)

NoOpReconnect(g, s) ==
    Out([g EXCEPT !.reconnectCalls = @ + 1, !.connected = TRUE], s, FALSE)

NoOpDestroy(g, s) ==
    Out(IF g.connected THEN [g EXCEPT !.connected = FALSE] ELSE g, s, FALSE)

\* Variant: Disconnect writes to the UDC attribute whatever the link's state.
LinuxDisconnectAlwaysWrites(g, s, writeOk) ==
    IF ~writeOk THEN Out(g, s, TRUE)
    ELSE Out([g EXCEPT !.connected = FALSE], [s EXCEPT !.udc = ""], FALSE)

\* writeOk: whether the write to the UDC attribute succeeds.
LinuxDisconnect(g, s, writeOk) ==
    IF ~g.connected THEN Out(g, s, FALSE)
    ELSE IF ~writeOk THEN Out(g, s, TRUE)
    ELSE Out([g EXCEPT !.connected = FALSE], [s EXCEPT !.udc = ""], FALSE)

\* Variant: Reconnect writes the UDC name but does not record the link as up.
LinuxReconnectNoFlag(g, s, writeOk) ==
    IF g.connected THEN Out(g, s, FALSE)
    ELSE IF g.udcName = "" THEN Out(g, s, TRUE)
    ELSE IF ~writeOk THEN Out(g, s, TRUE)
    ELSE Out(g, [s EXCEPT !.udc = g.udcName], FALSE)

LinuxReconnect(g, s, writeOk) ==
    IF g.connected THEN Out(g, s, FALSE)
    ELSE IF g.udcName = "" THEN Out(g, s, TRUE)
    ELSE IF ~writeOk THEN Out(g, s, TRUE)
    ELSE Out([g EXCEPT !.connected = TRUE], [s EXCEPT !.udc = g.udcName], FALSE)

\* The steps of LinuxUsbGadget.Initialize that can fail, in order.
InitFailPoints == {"none", "mkdir", "attr", "noudc", "reconnect"}

\* Variant: Initialize does not look for an existing gadget directory.
LinuxInitializeNoConflictCheck(g, s, fp) ==
    IF fp = "mkdir" THEN Out(g, s, TRUE)
    ELSE IF fp \in {"attr", "noudc"} THEN Out(g, [s EXCEPT !.tree = "own"], TRUE)
    ELSE LinuxReconnect([g EXCEPT !.udcName = "udc0"], [s EXCEPT !.tree = "own"],
                        fp = "none")

\* fp: the step of Initialize that fails ("none": every step succeeds).
LinuxInitialize(g, s, fp) ==
    IF s.tree # "absent" THEN Out(g, s, TRUE)
    ELSE IF fp = "mkdir" THEN Out(g, s, TRUE)
    ELSE IF fp \in {"attr", "noudc"} THEN Out(g, [s EXCEPT !.tree = "own"], TRUE)
    ELSE LinuxReconnect([g EXCEPT !.udcName = "udc0"], [s EXCEPT !.tree = "own"],
                        fp = "none")

\* Variant: destroy forgets the UDC name.
LinuxDestroyForgetsUdc(g, s, writeOk, rmOk) ==
    IF s.tree = "absent" THEN Out(g, s, FALSE)
    ELSE LET d == LinuxDisconnect(g, s, writeOk)
         IN  Out([d.g EXCEPT !.udcName = ""],
                 IF rmOk THEN [tree |-> "absent", udc |-> ""] ELSE d.s, FALSE)

\* Variant: destroy disconnects but removes nothing.
LinuxDestroyKeepsTree(g, s, writeOk, rmOk) ==
    IF s.tree = "absent" THEN Out(g, s, FALSE)
    ELSE LET d == LinuxDisconnect(g, s, writeOk)
         IN  Out(d.g, d.s, FALSE)

\* Variant: destroy leaves alone a tree that this gadget did not create.
LinuxDestroyOwnTreeOnly(g, s, writeOk, rmOk) ==
    IF s.tree # "own" THEN Out(g, s, FALSE)
    ELSE LET d == LinuxDisconnect(g, s, writeOk)
         IN  Out(d.g, IF rmOk THEN [tree |-> "absent", udc |-> ""] ELSE d.s, FALSE)

\* rmOk: whether removing the configfs tree succeeds (errors are ignored).
LinuxDestroy(g, s, writeOk, rmOk) ==
    IF s.tree = "absent" THEN Out(g, s, FALSE)
    ELSE LET d == LinuxDisconnect(g, s, writeOk)
         IN  Out(d.g, IF rmOk THEN [tree |-> "absent", udc |-> ""] ELSE d.s, FALSE)

\* The error Initialize returns ("nil": none).
LinuxInitializeError(g, s, fp) ==
    IF s.tree # "absent" THEN "already configured"
    ELSE IF fp = "mkdir" THEN "could not create USB gadget directory"
    ELSE IF fp = "attr" THEN "failed to write"
    ELSE IF fp = "noudc" THEN "no UDC available"
    ELSE IF LinuxInitialize(g, s, fp).err THEN "failed to reconnect gadget"
    ELSE "nil"

\* A write to an attribute of a tree that is gone cannot succeed.
WriteOutcomes(s) == IF s.tree = "absent" THEN {FALSE} ELSE BOOLEAN

GadgetDisconnect(g, s, writeOk) ==
    IF g.kind = "NoOp" THEN NoOpDisconnect(g, s) ELSE LinuxDisconnect(g, s, writeOk)

GadgetReconnect(g, s, writeOk) ==
    IF g.kind = "NoOp" THEN NoOpReconnect(g, s) ELSE LinuxReconnect(g, s, writeOk)

GadgetInitialize(g, s, fp) ==
    IF g.kind = "NoOp" THEN NoOpInitialize(g, s) ELSE LinuxInitialize(g, s, fp)

GadgetDestroy(g, s, writeOk, rmOk) ==
    IF g.kind = "NoOp" THEN NoOpDestroy(g, s) ELSE LinuxDestroy(g, s, writeOk, rmOk)

IsConnected == gadget.connected

\* destroy of the hardware gadget: the write of its Disconnect is attempted
\* and fails; the removal of the configfs tree is attempted and fails.
DestroyWriteFails(g, s, writeOk) ==
    g.kind = "Linux" /\ s.tree # "absent" /\ g.connected /\ ~writeOk

DestroyRemoveFails(g, s, rmOk) ==
    g.kind = "Linux" /\ s.tree # "absent" /\ ~rmOk

\* The record kept of an operation on the gadget: the gadget and the tree
\* before it, the tree after Initialize (for New), and what failed.
GOp(op, note, err, g, s, mid, wfail, rfail) ==
    [op |-> op, note |-> note, err |-> err, pre |-> g, preS |-> s,
     mid |-> mid, wfail |-> wfail, rfail |-> rfail]

NoTree == [tree |-> "absent", udc |-> ""]
NoGOp == GOp("none", "", FALSE, NilGadget, NoTree, NoTree, FALSE, FALSE)

\* ------------------------------------------------- the filesystem backend
\* The FAT32 filesystem behind Manager.filesystem, as far as the Manager
\* uses it: Mkdir, OpenFile with the flags the Manager passes, and writes
\* through the opened file.  fs is a record of the files and directories.
IsDirOf(fs, d) == d = Root \/ d \in fs.dirs
IsFileOf(fs, f) == f \in DOMAIN fs.files

FsOut(fs, e) == [fs |-> fs, err |-> e]

PutFile(fs, path, data) ==
    [fs EXCEPT !.files = [q \in DOMAIN fs.files \cup {path} |->
                            IF q = path THEN data ELSE fs.files[q]]]

\* Mkdir of one directory whose parent exists: an error when the name is
\* taken by a file, no error when the directory is already there.
FsMkdir(fs, d, ioOk) ==
    IF IsFileOf(fs, d) \/ ~ioOk THEN FsOut(fs, "MkdirFailed")
    ELSE FsOut([fs EXCEPT !.dirs = @ \cup {d}], "nil")

\* OpenFile: the root and directories cannot be opened as files; a missing
\* parent directory is reported as unreadable directory entries; a missing
\* file is created under O_CREATE and otherwise reported with a message
\* that says the target "does not exist"; O_TRUNC empties an existing file.
FsOpenFile(fs, path, flags, ioOk) ==
    IF path = Root \/ path \in fs.dirs THEN FsOut(fs, "IsDirectory")
    ELSE IF ~IsDirOf(fs, Dir(path)) THEN FsOut(fs, "NoDirEntries")
    ELSE IF ~IsFileOf(fs, path)
    THEN IF "O_CREATE" \notin flags THEN FsOut(fs, "DoesNotExist")
         ELSE IF ~ioOk THEN FsOut(fs, "CreateFailed")
         ELSE FsOut(PutFile(fs, path, <<>>), "nil")
    ELSE IF "O_TRUNC" \in flags THEN FsOut(PutFile(fs, path, <<>>), "nil")
    ELSE FsOut(fs, "nil")

\* A write of data at offset 0 of an open file: bytes beyond the data stay.
FsWrite(fs, path, data) ==
    LET old == fs.files[path]
    IN  PutFile(fs, path, data \o SubSeq(old, Len(data) + 1, Len(old)))

\* ------------------------------------------------ Transaction.WriteFile
Min(a, b) == IF a < b THEN a ELSE b

\* The flags of the two OpenFile calls of the Manager.
WriteFlags == {"O_CREATE", "O_RDWR", "O_TRUNC"}
ReadFlags  == {"O_RDONLY"}

\* The two failures of a copy: an I/O error, and no room left on the disk.
CopyFaults == {"copy", "full"}

\* What can go wrong in the backend during one WriteFile: nothing, the
\* first Mkdir, the creation of the file, or the copy after k bytes.
Faults ==
    {<<"none", 0>>, <<"mkdir", 0>>, <<"create", 0>>}
        \cup {<<c, k>> : c \in CopyFaults, k \in 0..(MaxLen - 1)}

\* ensureDir: Mkdir of every prefix of dirPath, from the root down; r is
\* the index of the "/" that starts the next part.
RECURSIVE ensureDirFrom(_, _, _, _)
ensureDirFrom(fs, dirPath, r, ioOk) ==
    IF r > Len(dirPath) THEN FsOut(fs, "nil")
    ELSE LET e == ElementEnd(dirPath, r + 1)
             m == FsMkdir(fs, SubSeq(dirPath, 1, e - 1), ioOk)
         IN  IF m.err # "nil" THEN FsOut(m.fs, ErrEnsureDirWrapped)
             ELSE ensureDirFrom(m.fs, dirPath, e, ioOk)

ensureDir(fs, dirPath, ioOk) == ensureDirFrom(fs, dirPath, 1, ioOk)

\* Variant: the whole source is copied, whatever the size.
CopyNIgnoringSize(src, size) == src

\* io.CopyN(file, reader, size): the bytes it hands to the file.  A source
\* shorter than size ends the copy with io.EOF, which WriteFile ignores.
CopyN(src, size) == SubSeq(src, 1, Min(size, Len(src)))

\* Variant: a failing WriteFile undoes what was written before it.
WriteFileUndoingOnError(fs, filePath, src, size, fault) ==
    LET p     == normalizePath(filePath)
        dir   == Dir(p)
        d     == IF dir # Root /\ dir # <<".">>
                 THEN ensureDir(fs, dir, fault[1] # "mkdir")
                 ELSE FsOut(fs, "nil")
        o     == FsOpenFile(d.fs, p, WriteFlags, fault[1] # "create")
        data  == CopyN(src, size)
        empty == [files |-> <<>>, dirs |-> {}]
    IN  IF d.err # "nil" THEN FsOut(empty, ErrEnsureDirWrapped)
        ELSE IF o.err # "nil" THEN FsOut(empty, ErrCreateWrapped)
        ELSE IF fault[1] \in CopyFaults THEN FsOut(empty, ErrWriteWrapped)
        ELSE FsOut(FsWrite(o.fs, p, data), "nil")

\* Transaction.WriteFile on an open filesystem: the filesystem after the
\* call and the error returned.
WriteFile(fs, filePath, src, size, fault) ==
    LET p    == normalizePath(filePath)
        dir  == Dir(p)
        d    == IF dir # Root /\ dir # <<".">>
                THEN ensureDir(fs, dir, fault[1] # "mkdir")
                ELSE FsOut(fs, "nil")
        o    == FsOpenFile(d.fs, p, WriteFlags, fault[1] # "create")
        data == CopyN(src, size)
    IN  IF d.err # "nil" THEN FsOut(d.fs, ErrEnsureDirWrapped)
        ELSE IF o.err # "nil" THEN FsOut(o.fs, ErrCreateWrapped)
        ELSE IF fault[1] \in CopyFaults
        THEN FsOut(FsWrite(o.fs, p, SubSeq(data, 1, Min(fault[2], Len(data)))),
                   ErrWriteWrapped)
        ELSE FsOut(FsWrite(o.fs, p, data), "nil")

\* Manager.ReadFile under the read lock: the error and the bytes of the
\* stream returned.
ReadFile(fs, open, filePath) ==
    IF ~open THEN Err(ErrDiskNotInitialized)
    ELSE LET p == normalizePath(filePath)
             o == FsOpenFile(fs, p, ReadFlags, TRUE)
         IN  IF o.err = "DoesNotExist" THEN Err(ErrFileNotFound)
             ELSE IF o.err # "nil" THEN Err(ErrOpenWrapped)
             ELSE [err |-> "nil", data |-> fs.files[p]]

\* Variant: a failed Reconnect becomes the result of the transaction.
ResultReplacedByReconnectError(r, recErr) ==
    IF recErr THEN "failed to reconnect USB gadget" ELSE r

\* The value BeginTransaction returns once the deferred Reconnect has run:
\* r is what fn returned, recErr whether Reconnect failed.
ResultAfterReconnect(r, recErr) == r

\* ---------------------------------------------------------- the mutex
\* Variant: Lock waits for the readers only, not for another writer.
CanLockIgnoringWriter == muReaders = {}

\* Variant: a re-entrant lock, granted again while its holder asks for it.
CanLockReentrant ==
    /\ muReaders = {}
    /\ muWriter # 0 => pc[muWriter] \in {"tx_lock", "cl_lock"}

\* sync.RWMutex: Lock waits until nobody holds the lock.  RLock waits
\* while a writer holds the lock or is waiting for it (a pending Lock
\* holds back new readers); Unlock lets in the readers waiting then.
CanLock  == muWriter = 0 /\ muReaders = {}
\* Variant: RLock does not wait for a writer.
CanRLockIgnoringWriter == TRUE

WriterWaiting == \E q \in Procs : pc[q] \in {"tx_lock", "cl_lock", "clr_lock"}

CanRLock == muWriter = 0 /\ ~WriterWaiting

\* The goroutines blocked in RLock, which Unlock wakes, and the position
\* of every goroutine after goroutine p has unlocked and returned.
Woken == {q \in Procs : pc[q] = "rd_lock"}

AfterUnlock(p) ==
    [q \in Procs |-> IF q = p THEN "idle"
                     ELSE IF q \in Woken THEN "rd_open" ELSE pc[q]]

\* ------------------------------------------------------------ the inputs
FnResults == {"nil", "fnErr", "panic"}

\* The callers and the arguments they draw from.  Concurrent callers work
\* on one path with short contents; a single caller works on the paths
\* "a", "/a", "/d/a" and "" (and reads "/d" too) with every content.
ConcurrentInputs ==
    [procs      |-> Procs,
     kinds      |-> {"NoOp", "Linux"},
     writePaths |-> {<<"a">>},
     readPaths  |-> {<<"/", "a">>},
     contents   |-> {<<>>, <<255>>},
     sizes      |-> {1},
     faults     |-> {<<"none", 0>>, <<"copy", 0>>},
     results    |-> FnResults]

SequentialInputs ==
    [procs      |-> {1},
     kinds      |-> {"NoOp"},
     writePaths |-> {<<"a">>, <<"/", "a">>, <<"/", "d", "/", "a">>, <<>>},
     readPaths  |-> {<<"a">>, <<"/", "a">>, <<"/", "d", "/", "a">>, <<>>, <<"/", "d">>},
     contents   |-> Contents,
     sizes      |-> 0..MaxLen,
     faults     |-> {<<"none", 0>>},
     results    |-> FnResults]

\* One caller that writes a file at the root, a file in a directory and
\* the empty path, from a source of every length up to MaxLen with every
\* size up to MaxLen, the copy failing at its first byte (an I/O error, or
\* the disk being full) or not at all.
WriterInputs ==
    [procs      |-> {1},
     kinds      |-> {"NoOp"},
     writePaths |-> {<<"a">>, <<"d", "/", "a">>, <<>>},
     readPaths  |-> {<<"/", "a">>},
     contents   |-> {s \in Contents : s = <<>> \/ s[1] = 0},
     sizes      |-> 0..MaxLen,
     faults     |-> {<<"none", 0>>, <<"copy", 0>>, <<"full", 0>>},
     results    |-> FnResults]

Disk == [files |-> files, dirs |-> dirs]

\* -------------------------------------------------------------- Init
Init ==
    /\ mgr = "none"
    /\ fsOpen = FALSE
    /\ gadget = NilGadget
    /\ sysfs \in {NoTree, [tree |-> "foreign", udc |-> "udc0"]}
    /\ files = <<>>
    /\ dirs = {}
    /\ muWriter = 0
    /\ muReaders = {}
    /\ pc = [p \in Procs |-> "idle"]
    /\ ret = [p \in Procs |-> NoRet]
    /\ ev = [p \in Procs |-> <<>>]
    /\ nw = [p \in Procs |-> 0]
    /\ rdPath = [p \in Procs |-> NoPath]
    /\ lastWrite = NoWrite
    /\ wlog = NoLog
    /\ leak = NoLeak
    /\ txDone = 0
    /\ gop = NoGOp
    /\ ginit = "never"
    /\ gdead = FALSE
    /\ npIn = <<>>
    /\ npOut = <<>>
    /\ hexIn = <<>>
    /\ hexOut = NoHex
    /\ wrIn = NoWrIn
    /\ wrOut = NoWrOut
    /\ stream = NoStream
    /\ lw = NoLoopback
    /\ macOut = NoMacOut
    /\ macIn = NoMac

\* ------------------------------------------------------- construction
\* New(config, gadget): stat of the image, openDisk, gadget.Initialize and,
\* when that fails, Close.  imageOk: the image exists; openOk: it opens.
New(kind, imageOk, openOk, fp, writeOk, rmOk) ==
    /\ mgr = "none"
    /\ LET g0   == IF kind = "NoOp" THEN NewNoOpUsbGadget ELSE NewLinuxUsbGadget
           i    == GadgetInitialize(g0, sysfs, fp)
           c    == GadgetDestroy(i.g, i.s, writeOk, rmOk)
       IN  IF ~imageOk \/ ~openOk
           THEN /\ mgr' = "failed"
                /\ gadget' = g0
                /\ UNCHANGED <<fsOpen, sysfs>>
           ELSE IF i.err
           THEN /\ mgr' = "failed"
                /\ gadget' = c.g
                /\ sysfs' = c.s
                /\ fsOpen' = FALSE
           ELSE /\ mgr' = "ready"
                /\ gadget' = i.g
                /\ sysfs' = i.s
                /\ fsOpen' = TRUE
    /\ LET g0 == IF kind = "NoOp" THEN NewNoOpUsbGadget ELSE NewLinuxUsbGadget
           i  == GadgetInitialize(g0, sysfs, fp)
       IN  gop' = IF ~imageOk THEN GOp("New", "noimage", TRUE, g0, sysfs, sysfs, FALSE, FALSE)
                  ELSE IF ~openOk THEN GOp("New", "noopen", TRUE, g0, sysfs, sysfs, FALSE, FALSE)
                  ELSE IF i.err
                  THEN GOp("New", "initfail", TRUE, g0, sysfs, i.s,
                           DestroyWriteFails(i.g, i.s, writeOk),
                           DestroyRemoveFails(i.g, i.s, rmOk))
                  ELSE GOp("New", "ok", FALSE, g0, sysfs, i.s, FALSE, FALSE)
    /\ UNCHANGED <<ginit, gdead, npIn, npOut, fvars>>
    /\ UNCHANGED <<files, dirs, muWriter, muReaders, pc, ret, ev, nw, rdPath, lastWrite, wlog, leak, txDone>>

\* A Manager built as &Manager{}: no filesystem, no gadget.
NewLiteral ==
    /\ mgr = "none"
    /\ mgr' = "literal"
    /\ UNCHANGED <<fsOpen, gadget, sysfs, files, dirs, muWriter, muReaders, pc,
                   ret, ev, nw, rdPath, lastWrite, wlog, leak, txDone>>
    /\ UNCHANGED hvars

Usable == mgr \in {"ready", "literal"}

\* ------------------------------------------------- BeginTransaction
\* A goroutine calls BeginTransaction and waits for m.mu.Lock().
TxCall(p) ==
    /\ Usable /\ pc[p] = "idle"
    /\ gadget.disconnectCalls + Cardinality({q \in Procs : pc[q] \in {"tx_lock", "tx_begin"}}) < MaxTx
    /\ pc' = [pc EXCEPT ![p] = "tx_lock"]
    /\ UNCHANGED <<mgr, fsOpen, gadget, sysfs, files, dirs, muWriter, muReaders,
                   ret, ev, nw, rdPath, lastWrite, wlog, leak, txDone>>
    /\ UNCHANGED hvars

\* m.mu.Lock() returns.
TxLock(p) ==
    /\ pc[p] = "tx_lock" /\ CanLock
    /\ muWriter' = p
    /\ pc' = [pc EXCEPT ![p] = "tx_begin"]
    /\ UNCHANGED <<mgr, fsOpen, gadget, sysfs, files, dirs, muReaders, ret, ev,
                   nw, rdPath, lastWrite, wlog, leak, txDone>>
    /\ UNCHANGED hvars

\* Variant: the error of Disconnect is ignored and fn is called anyway.
BeginIgnoringDisconnectError(open, g, s, writeOk) ==
    IF ~open
    THEN [g |-> g, s |-> s, ev |-> <<>>, ret |-> Err(ErrDiskNotInitialized),
          pc |-> "tx_unlock"]
    ELSE LET d == GadgetDisconnect(g, s, writeOk)
         IN  [g |-> d.g, s |-> d.s,
              ev |-> << <<"Disconnect", IF d.err THEN "err" ELSE "ok">> >>,
              ret |-> NoRet, pc |-> "tx_fn"]

\* Variant: the filesystem is not checked for nil before the gadget is used.
BeginWithoutNilCheck(open, g, s, writeOk) ==
    IF g.kind = "nil"
    THEN [g |-> g, s |-> s, ev |-> <<>>, ret |-> Err("panic"), pc |-> "tx_unlock"]
    ELSE LET d == GadgetDisconnect(g, s, writeOk)
         IN  IF d.err
             THEN [g |-> d.g, s |-> d.s, ev |-> << <<"Disconnect", "err">> >>,
                   ret |-> Err(ErrDisconnectWrapped), pc |-> "tx_unlock"]
             ELSE [g |-> d.g, s |-> d.s, ev |-> << <<"Disconnect", "ok">> >>,
                   ret |-> NoRet, pc |-> "tx_fn"]

\* Variant: the early returns leave without the deferred Unlock.
BeginReturnsHoldingLock(open, g, s, writeOk) ==
    IF ~open
    THEN [g |-> g, s |-> s, ev |-> <<>>, ret |-> Err(ErrDiskNotInitialized),
          pc |-> "idle"]
    ELSE IF g.kind = "nil"
    THEN [g |-> g, s |-> s, ev |-> <<>>, ret |-> Err("panic"), pc |-> "tx_unlock"]
    ELSE LET d == GadgetDisconnect(g, s, writeOk)
         IN  IF d.err
             THEN [g |-> d.g, s |-> d.s, ev |-> << <<"Disconnect", "err">> >>,
                   ret |-> Err(ErrDisconnectWrapped), pc |-> "idle"]
             ELSE [g |-> d.g, s |-> d.s, ev |-> << <<"Disconnect", "ok">> >>,
                   ret |-> NoRet, pc |-> "tx_fn"]

\* BeginTransaction from the moment it holds the lock up to the call of
\* fn: the nil check of the filesystem, then gadget.Disconnect().  Yields
\* the gadget and the configfs tree afterwards, the gadget calls made, the
\* value to return (when fn is not reached) and where the call goes on.
\* A method call on an absent gadget is a nil dereference: a panic.
BeginOutcome(open, g, s, writeOk) ==
    IF ~open
    THEN [g |-> g, s |-> s, ev |-> <<>>, ret |-> Err(ErrDiskNotInitialized),
          pc |-> "tx_unlock"]
    ELSE IF g.kind = "nil"
    THEN [g |-> g, s |-> s, ev |-> <<>>, ret |-> Err("panic"), pc |-> "tx_unlock"]
    ELSE LET d == GadgetDisconnect(g, s, writeOk)
         IN  IF d.err
             THEN [g |-> d.g, s |-> d.s, ev |-> << <<"Disconnect", "err">> >>,
                   ret |-> Err(ErrDisconnectWrapped), pc |-> "tx_unlock"]
             ELSE [g |-> d.g, s |-> d.s, ev |-> << <<"Disconnect", "ok">> >>,
                   ret |-> NoRet, pc |-> "tx_fn"]

\* The nil check and gadget.Disconnect(); on success the deferred Reconnect
\* is registered and fn is entered.
TxBegin(p, writeOk) ==
    /\ pc[p] = "tx_begin"
    /\ LET b == BeginOutcome(fsOpen, gadget, sysfs, writeOk)
       IN  /\ gadget' = b.g
           /\ sysfs' = b.s
           /\ ev' = [ev EXCEPT ![p] = b.ev]
           /\ ret' = [ret EXCEPT ![p] = b.ret]
           /\ pc' = [pc EXCEPT ![p] = b.pc]
    /\ UNCHANGED <<mgr, fsOpen, files, dirs, muWriter, muReaders, nw, rdPath,
                   lastWrite, wlog, leak, txDone>>
    /\ UNCHANGED hvars

\* fn calls tx.WriteFile(filePath, reader over src, size).
TxWrite(p, filePath, src, size, fault) ==
    /\ pc[p] = "tx_fn" /\ nw[p] < MaxWrites
    /\ fault[1] \in CopyFaults => fault[2] < Len(CopyN(src, size))
    /\ \E w \in {IF fsOpen THEN WriteFile(Disk, filePath, src, size, fault)
                ELSE FsOut(Disk, ErrDiskNotInitialized)} :
           /\ files' = w.fs.files
           /\ dirs' = w.fs.dirs
           /\ lastWrite' = IF w.err = "nil" /\ size = Len(src)
                           THEN [path |-> filePath, data |-> src, valid |-> TRUE]
                           ELSE NoWrite
           /\ wlog' = LET np == normalizePath(filePath)
                           on == (DOMAIN wlog.kept) \ {np}
                       IN  [last   |-> [path |-> filePath, src |-> src, size |-> size,
                                        fault |-> fault[1], err |-> w.err,
                                        fresh |-> np \notin DOMAIN files],
                            failed |-> w.err # "nil",
                            kept   |-> IF w.err = "nil"
                                       THEN [q \in on \cup {np} |->
                                               IF q = np THEN w.fs.files[np]
                                               ELSE wlog.kept[q]]
                                       ELSE [q \in on |-> wlog.kept[q]]]
    /\ nw' = [nw EXCEPT ![p] = @ + 1]
    /\ UNCHANGED <<mgr, fsOpen, gadget, sysfs, muWriter, muReaders, pc, ret, ev,
                   rdPath, leak, txDone>>
    /\ UNCHANGED hvars

\* Variant: Reconnect is called after a return of fn, not after a panic.
ReconnectOnReturnOnly(r) == IF r = "panic" THEN "tx_unlock" ELSE "tx_reconnect"

\* Variant: a panic of fn leaves BeginTransaction at once, no deferred
\* call run.
PanicSkipsDeferred(r) == IF r = "panic" THEN "idle" ELSE "tx_reconnect"

\* What runs when fn is left with result r: the deferred Reconnect, on a
\* return as on a panic.
DeferredAfterFn(r) == "tx_reconnect"

\* fn returns nil or an error, or panics.
TxFnExit(p, r) ==
    /\ pc[p] = "tx_fn"
    /\ ev' = [ev EXCEPT ![p] = Append(@, <<"fn", r>>)]
    /\ ret' = [ret EXCEPT ![p] = Err(r)]
    /\ pc' = [pc EXCEPT ![p] = DeferredAfterFn(r)]
    /\ wlog' = [wlog EXCEPT !.last = NoCall]
    /\ UNCHANGED <<mgr, fsOpen, gadget, sysfs, files, dirs, muWriter, muReaders,
                   nw, rdPath, lastWrite, leak, txDone>>
    /\ UNCHANGED hvars

\* The deferred function: gadget.Reconnect(), a warning when it fails.
TxReconnect(p, writeOk) ==
    /\ pc[p] = "tx_reconnect"
    /\ LET r == GadgetReconnect(gadget, sysfs, writeOk)
       IN  /\ gadget' = r.g
           /\ sysfs' = r.s
           /\ ev' = [ev EXCEPT ![p] =
                        Append(@, <<"Reconnect", IF r.err THEN "err" ELSE "ok">>)]
           /\ ret' = [ret EXCEPT ![p] = Err(ResultAfterReconnect(@.err, r.err))]
    /\ pc' = [pc EXCEPT ![p] = "tx_unlock"]
    /\ UNCHANGED <<mgr, fsOpen, files, dirs, muWriter, muReaders, nw, rdPath,
                   lastWrite, wlog, leak, txDone>>
    /\ UNCHANGED hvars

\* The calls of one BeginTransaction got as far as calling fn.
ReachedFn(e) == Len(e) >= 1 /\ e[1] = <<"Disconnect", "ok">>

\* The deferred m.mu.Unlock(); BeginTransaction returns ret[p] (or the
\* panic goes on to the caller), and the goroutine is free for its next call.
TxUnlock(p) ==
    /\ pc[p] = "tx_unlock"
    /\ muWriter' = 0
    /\ muReaders' = muReaders \cup Woken
    /\ pc' = AfterUnlock(p)
    /\ ret' = [ret EXCEPT ![p] = NoRet]
    /\ ev' = [ev EXCEPT ![p] = <<>>]
    /\ nw' = [nw EXCEPT ![p] = 0]
    /\ txDone' = IF gadget.kind = "NoOp" /\ ReachedFn(ev[p]) THEN txDone + 1 ELSE txDone
    /\ wlog' = NoLog
    /\ UNCHANGED <<mgr, fsOpen, gadget, sysfs, files, dirs, rdPath, lastWrite,
                   leak>>
    /\ UNCHANGED hvars

\* --------------------------------------------------------- ReadFile
\* A goroutine calls ReadFile(filePath) and waits for m.mu.RLock().
RdCall(p, filePath) ==
    /\ Usable /\ pc[p] = "idle"
    /\ pc' = [pc EXCEPT ![p] = "rd_lock"]
    /\ rdPath' = [rdPath EXCEPT ![p] = filePath]
    /\ UNCHANGED <<mgr, fsOpen, gadget, sysfs, files, dirs, muWriter, muReaders,
                   ret, ev, nw, lastWrite, wlog, leak, txDone>>
    /\ UNCHANGED hvars

\* m.mu.RLock() returns.
RdLock(p) ==
    /\ pc[p] = "rd_lock" /\ CanRLock
    /\ muReaders' = muReaders \cup {p}
    /\ pc' = [pc EXCEPT ![p] = "rd_open"]
    /\ UNCHANGED <<mgr, fsOpen, gadget, sysfs, files, dirs, muWriter, ret, ev, nw,
                   rdPath, lastWrite, wlog, leak, txDone>>
    /\ UNCHANGED hvars

\* The nil check, normalizePath and OpenFile for reading.
RdOpen(p) ==
    /\ pc[p] = "rd_open"
    /\ ret' = [ret EXCEPT ![p] = ReadFile(Disk, fsOpen, rdPath[p])]
    /\ pc' = [pc EXCEPT ![p] = "rd_unlock"]
    /\ UNCHANGED <<mgr, fsOpen, gadget, sysfs, files, dirs, muWriter, muReaders,
                   ev, nw, rdPath, lastWrite, wlog, leak, txDone>>
    /\ UNCHANGED hvars

\* The deferred m.mu.RUnlock(); ReadFile returns ret[p].
RdUnlock(p) ==
    /\ pc[p] = "rd_unlock"
    /\ muReaders' = muReaders \ {p}
    /\ pc' = [pc EXCEPT ![p] = "idle"]
    /\ ret' = [ret EXCEPT ![p] = NoRet]
    /\ rdPath' = [rdPath EXCEPT ![p] = NoPath]
    /\ UNCHANGED <<mgr, fsOpen, gadget, sysfs, files, dirs, muWriter, ev, nw,
                   lastWrite, wlog, leak, txDone>>
    /\ UNCHANGED hvars

\* ------------------------------------------------------------ Close
\* A goroutine calls Close and waits for m.mu.Lock().
ClCall(p) ==
    /\ Usable /\ pc[p] = "idle"
    /\ pc' = [pc EXCEPT ![p] = "cl_lock"]
    /\ UNCHANGED <<mgr, fsOpen, gadget, sysfs, files, dirs, muWriter, muReaders,
                   ret, ev, nw, rdPath, lastWrite, wlog, leak, txDone>>
    /\ UNCHANGED hvars

\* m.mu.Lock() returns.
ClLock(p) ==
    /\ pc[p] = "cl_lock" /\ CanLock
    /\ muWriter' = p
    /\ pc' = [pc EXCEPT ![p] = "cl_destroy"]
    /\ UNCHANGED <<mgr, fsOpen, gadget, sysfs, files, dirs, muReaders, ret, ev,
                   nw, rdPath, lastWrite, wlog, leak, txDone>>
    /\ UNCHANGED hvars

\* Variant: Close leaves m.filesystem as it is.
CloseKeepsFilesystem(open) == open

\* m.disk = nil; m.filesystem = nil: whether a filesystem is held afterwards.
CloseClearsFilesystem(open) == FALSE

\* gadget.destroy() when there is a gadget, then the references are cleared.
ClDestroy(p, writeOk, rmOk) ==
    /\ pc[p] = "cl_destroy"
    /\ LET c == IF gadget.kind # "nil"
                THEN GadgetDestroy(gadget, sysfs, writeOk, rmOk)
                ELSE Out(gadget, sysfs, FALSE)
       IN  /\ gadget' = c.g
           /\ sysfs' = c.s
    /\ fsOpen' = CloseClearsFilesystem(fsOpen)
    /\ ret' = [ret EXCEPT ![p] = Err("nil")]
    /\ pc' = [pc EXCEPT ![p] = "cl_unlock"]
    /\ gop' = GOp("Close", IF fsOpen THEN "first" ELSE "again", FALSE, gadget,
                  sysfs, sysfs, DestroyWriteFails(gadget, sysfs, writeOk),
                  DestroyRemoveFails(gadget, sysfs, rmOk))
    /\ UNCHANGED <<ginit, gdead, npIn, npOut, fvars>>
    /\ UNCHANGED <<mgr, files, dirs, muWriter, muReaders, ev, nw, rdPath,
                   lastWrite, wlog, leak, txDone>>

\* The deferred m.mu.Unlock(); Close returns ret[p].
ClUnlock(p) ==
    /\ pc[p] = "cl_unlock"
    /\ muWriter' = 0
    /\ muReaders' = muReaders \cup Woken
    /\ pc' = AfterUnlock(p)
    /\ ret' = [ret EXCEPT ![p] = NoRet]
    /\ UNCHANGED <<mgr, fsOpen, gadget, sysfs, files, dirs, ev, nw,
                   rdPath, lastWrite, wlog, leak, txDone>>
    /\ UNCHANGED hvars

\* NoOpUsbGadget.ResetCounts, called between transactions as the tests do.
ResetCounts ==
    /\ gadget.kind = "NoOp"
    /\ gadget.disconnectCalls + gadget.reconnectCalls > 0
    /\ \A p \in Procs : pc[p] \notin {"tx_begin", "tx_fn", "tx_reconnect", "tx_unlock"}
    /\ gadget' = [gadget EXCEPT !.disconnectCalls = 0, !.reconnectCalls = 0]
    /\ txDone' = 0
    /\ UNCHANGED <<mgr, fsOpen, sysfs, files, dirs, muWriter, muReaders, pc, ret,
                   ev, nw, rdPath, lastWrite, wlog, leak>>
    /\ UNCHANGED hvars

\* ------------------------------------------------------------- Next
\* One step of the system with the callers and arguments of I.
Step(I) ==
    \/ \E kind \in I.kinds, imageOk \in BOOLEAN, openOk \in BOOLEAN,
          fp \in InitFailPoints, writeOk \in BOOLEAN, rmOk \in BOOLEAN :
          New(kind, imageOk, openOk, fp, writeOk, rmOk)
    \/ NewLiteral
    \/ \E p \in I.procs : TxCall(p)
    \/ \E p \in I.procs : TxLock(p)
    \/ \E p \in I.procs : \E writeOk \in WriteOutcomes(sysfs) : TxBegin(p, writeOk)
    \/ \E p \in I.procs : \E filePath \in I.writePaths, src \in I.contents,
          size \in I.sizes, fault \in I.faults :
          TxWrite(p, filePath, src, size, fault)
    \/ \E p \in I.procs : \E r \in I.results : TxFnExit(p, r)
    \/ \E p \in I.procs : \E writeOk \in WriteOutcomes(sysfs) : TxReconnect(p, writeOk)
    \/ \E p \in I.procs : TxUnlock(p)
    \/ \E p \in I.procs : \E filePath \in I.readPaths : RdCall(p, filePath)
    \/ \E p \in I.procs : RdLock(p)
    \/ \E p \in I.procs : RdOpen(p)
    \/ \E p \in I.procs : RdUnlock(p)
    \/ \E p \in I.procs : ClCall(p)
    \/ \E p \in I.procs : ClLock(p)
    \/ \E p \in I.procs : \E writeOk \in WriteOutcomes(sysfs), rmOk \in BOOLEAN :
          ClDestroy(p, writeOk, rmOk)
    \/ \E p \in I.procs : ClUnlock(p)
    \/ ResetCounts

\* Concurrent callers of one Manager.
Next == Step(ConcurrentInputs)
Spec == Init /\ [][Next]_vars

\* Concurrent callers under the scheduling of the Go runtime: a goroutine
\* that can run its next step does run it (Runs: fn returns or panics,
\* critical sections end), and a goroutine waiting in Lock gets the lock
\* once it has been free often enough (sync.Mutex hands over to its
\* longest waiter).  Readers need no more: a waiting writer holds back
\* new readers and Unlock wakes the waiting ones.
Runs(p) ==
    \/ \E writeOk \in WriteOutcomes(sysfs) : TxBegin(p, writeOk)
    \/ \E r \in FnResults : TxFnExit(p, r)
    \/ \E writeOk \in WriteOutcomes(sysfs) : TxReconnect(p, writeOk)
    \/ TxUnlock(p)
    \/ RdLock(p)
    \/ RdOpen(p)
    \/ RdUnlock(p)
    \/ \E writeOk \in WriteOutcomes(sysfs), rmOk \in BOOLEAN :
           ClDestroy(p, writeOk, rmOk)
    \/ ClUnlock(p)

Fairness ==
    \A p \in Procs :
        /\ SF_vars(TxLock(p))
        /\ SF_vars(ClLock(p))
        /\ WF_vars(Runs(p))

\* The callers of the liveness check: every goroutine may begin a
\* transaction, read and close; one path, one content, no backend fault.
LiveInputs ==
    [procs      |-> Procs,
     kinds      |-> {"NoOp"},
     writePaths |-> {<<"a">>},
     readPaths  |-> {<<"/", "a">>},
     contents   |-> {<<255>>},
     sizes      |-> {1},
     faults     |-> {<<"none", 0>>},
     results    |-> FnResults]

NextLive == Step(LiveInputs)
SpecLive == Init /\ [][NextLive]_vars /\ Fairness

\* One caller, every path and content.
NextSeq == Step(SequentialInputs)
SpecSeq == Init /\ [][NextSeq]_vars

\* One caller writing.
NextWrite == Step(WriterInputs)
SpecWrite == Init /\ [][NextWrite]_vars

\* --------------------------------------- a Transaction kept beyond fn
\* fn stores the *Transaction it was given where it outlives the call.
TxKeep(p) ==
    /\ pc[p] = "tx_fn"
    /\ p \notin leak.held
    /\ leak' = [leak EXCEPT !.held = @ \cup {p}]
    /\ UNCHANGED <<mgr, fsOpen, gadget, sysfs, files, dirs, muWriter, muReaders,
                   pc, ret, ev, nw, rdPath, lastWrite, wlog, txDone>>
    /\ UNCHANGED hvars

\* Transaction.WriteFile through a kept handle, after the BeginTransaction
\* that made it has returned: the nil check of the filesystem and the
\* write; no lock is taken and the gadget is not touched.
HandleWrite(p, filePath, src, size, fault) ==
    /\ p \in leak.held /\ pc[p] = "idle"
    /\ fault[1] \in CopyFaults => fault[2] < Len(CopyN(src, size))
    /\ \E w \in {IF fsOpen THEN WriteFile(Disk, filePath, src, size, fault)
                ELSE FsOut(Disk, ErrDiskNotInitialized)} :
           /\ files' = w.fs.files
           /\ dirs' = w.fs.dirs
           /\ leak' = [held |-> leak.held, called |-> TRUE, changed |-> w.fs # Disk,
                       locked |-> muWriter # 0, connected |-> IsConnected]
    /\ UNCHANGED <<mgr, fsOpen, gadget, sysfs, muWriter, muReaders, pc, ret, ev,
                   nw, rdPath, lastWrite, wlog, txDone>>
    /\ UNCHANGED hvars

\* Concurrent callers, some of which keep their Transaction.
NextLeak ==
    \/ Step(ConcurrentInputs)
    \/ \E p \in Procs : TxKeep(p)
    \/ \E p \in Procs : \E filePath \in ConcurrentInputs.writePaths,
          src \in ConcurrentInputs.contents, size \in ConcurrentInputs.sizes,
          fault \in ConcurrentInputs.faults :
          HandleWrite(p, filePath, src, size, fault)

SpecLeak == Init /\ [][NextLeak]_vars

\* ------------------------------------------------------- ClearFiles
\* Manager.ClearFiles as the specification describes it (the handler
\* calls it at part_000:302): under the exclusive lock it disconnects the
\* gadget, recreates the filesystem, and reconnects on every way out.
ErrRecreateWrapped == "failed to recreate filesystem"

ClrCall(p) ==
    /\ Usable /\ pc[p] = "idle"
    /\ gadget.disconnectCalls
          + Cardinality({q \in Procs : pc[q] \in {"tx_lock", "tx_begin",
                                                  "clr_lock", "clr_begin"}}) < MaxTx
    /\ pc' = [pc EXCEPT ![p] = "clr_lock"]
    /\ UNCHANGED <<mgr, fsOpen, gadget, sysfs, files, dirs, muWriter, muReaders,
                   ret, ev, nw, rdPath, lastWrite, wlog, leak, txDone>>
    /\ UNCHANGED hvars

ClrLock(p) ==
    /\ pc[p] = "clr_lock" /\ CanLock
    /\ muWriter' = p
    /\ pc' = [pc EXCEPT ![p] = "clr_begin"]
    /\ UNCHANGED <<mgr, fsOpen, gadget, sysfs, files, dirs, muReaders, ret, ev,
                   nw, rdPath, lastWrite, wlog, leak, txDone>>
    /\ UNCHANGED hvars

\* The nil check and gadget.Disconnect(), as in BeginTransaction.
ClrBegin(p, writeOk) ==
    /\ pc[p] = "clr_begin"
    /\ \E b \in {BeginOutcome(fsOpen, gadget, sysfs, writeOk)} :
           /\ gadget' = b.g
           /\ sysfs' = b.s
           /\ ev' = [ev EXCEPT ![p] = b.ev]
           /\ ret' = [ret EXCEPT ![p] = b.ret]
           /\ pc' = [pc EXCEPT ![p] = IF b.pc = "tx_fn" THEN "clr_format"
                                      ELSE "clr_unlock"]
    /\ UNCHANGED <<mgr, fsOpen, files, dirs, muWriter, muReaders, nw, rdPath,
                   lastWrite, wlog, leak, txDone>>
    /\ UNCHANGED hvars

\* The filesystem is created anew on the image: no file, no directory.
ClrFormat(p, ioOk) ==
    /\ pc[p] = "clr_format"
    /\ files' = IF ioOk THEN <<>> ELSE files
    /\ dirs' = IF ioOk THEN {} ELSE dirs
    /\ ret' = [ret EXCEPT ![p] = Err(IF ioOk THEN "nil" ELSE ErrRecreateWrapped)]
    /\ pc' = [pc EXCEPT ![p] = "clr_reconnect"]
    /\ UNCHANGED <<mgr, fsOpen, gadget, sysfs, muWriter, muReaders, ev, nw,
                   rdPath, lastWrite, wlog, leak, txDone>>
    /\ UNCHANGED hvars

\* gadget.Reconnect() on the way out; its error is not returned.
ClrReconnect(p, writeOk) ==
    /\ pc[p] = "clr_reconnect"
    /\ \E r \in {GadgetReconnect(gadget, sysfs, writeOk)} :
           /\ gadget' = r.g
           /\ sysfs' = r.s
           /\ ev' = [ev EXCEPT ![p] =
                        Append(@, <<"Reconnect", IF r.err THEN "err" ELSE "ok">>)]
    /\ pc' = [pc EXCEPT ![p] = "clr_unlock"]
    /\ UNCHANGED <<mgr, fsOpen, files, dirs, muWriter, muReaders, ret, nw,
                   rdPath, lastWrite, wlog, leak, txDone>>
    /\ UNCHANGED hvars

ClrUnlock(p) ==
    /\ pc[p] = "clr_unlock"
    /\ muWriter' = 0
    /\ muReaders' = muReaders \cup Woken
    /\ pc' = AfterUnlock(p)
    /\ ret' = [ret EXCEPT ![p] = NoRet]
    /\ ev' = [ev EXCEPT ![p] = <<>>]
    /\ UNCHANGED <<mgr, fsOpen, gadget, sysfs, files, dirs, nw,
                   rdPath, lastWrite, wlog, leak, txDone>>
    /\ UNCHANGED hvars

\* Callers that write a file at the root or in a directory, read, and
\* clear the disk.
ClearInputs ==
    [procs      |-> Procs,
     kinds      |-> {"NoOp", "Linux"},
     writePaths |-> {<<"a">>, <<"d", "/", "a">>},
     readPaths  |-> {<<"/", "d", "/", "a">>},
     contents   |-> {<<255>>},
     sizes      |-> {1},
     faults     |-> {<<"none", 0>>},
     results    |-> FnResults]

NextClear ==
    \/ Step(ClearInputs)
    \/ \E p \in Procs : ClrCall(p)
    \/ \E p \in Procs : ClrLock(p)
    \/ \E p \in Procs : \E writeOk \in WriteOutcomes(sysfs) : ClrBegin(p, writeOk)
    \/ \E p \in Procs : \E ioOk \in BOOLEAN : ClrFormat(p, ioOk)
    \/ \E p \in Procs : \E writeOk \in WriteOutcomes(sysfs) : ClrReconnect(p, writeOk)
    \/ \E p \in Procs : ClrUnlock(p)

SpecClear == Init /\ [][NextClear]_vars

\* ------------------------------------------- the gadget called directly
\* The variables of the Manager other than its gadget.
mvars == <<mgr, fsOpen, files, dirs, muWriter, muReaders, pc, ret, ev, nw,
           rdPath, lastWrite, wlog, leak, txDone>>

\* A gadget fresh from its constructor, no Manager around it.
InitGadget ==
    /\ mgr = "none"
    /\ fsOpen = FALSE
    /\ gadget \in {NewNoOpUsbGadget, NewLinuxUsbGadget}
    /\ sysfs \in {NoTree, [tree |-> "foreign", udc |-> ""],
                  [tree |-> "foreign", udc |-> "udc0"]}
    /\ files = <<>>
    /\ dirs = {}
    /\ muWriter = 0
    /\ muReaders = {}
    /\ pc = [p \in Procs |-> "idle"]
    /\ ret = [p \in Procs |-> NoRet]
    /\ ev = [p \in Procs |-> <<>>]
    /\ nw = [p \in Procs |-> 0]
    /\ rdPath = [p \in Procs |-> NoPath]
    /\ lastWrite = NoWrite
    /\ wlog = NoLog
    /\ leak = NoLeak
    /\ txDone = 0
    /\ gop = NoGOp
    /\ ginit = "never"
    /\ gdead = FALSE
    /\ npIn = <<>>
    /\ npOut = <<>>
    /\ hexIn = <<>>
    /\ hexOut = NoHex
    /\ wrIn = NoWrIn
    /\ wrOut = NoWrOut
    /\ stream = NoStream
    /\ lw = NoLoopback
    /\ macOut = NoMacOut
    /\ macIn = NoMac

GInitialize(fp) ==
    /\ LET i == GadgetInitialize(gadget, sysfs, fp)
           e == IF gadget.kind = "NoOp" THEN "nil"
                ELSE LinuxInitializeError(gadget, sysfs, fp)
       IN  /\ gadget' = i.g
           /\ sysfs' = i.s
           /\ gop' = GOp("Initialize", e, i.err, gadget, sysfs, i.s, FALSE, FALSE)
           /\ ginit' = IF ~i.err THEN "ok"
                       ELSE IF ginit = "never" THEN "failed" ELSE ginit
           /\ gdead' = (gdead /\ i.err)
    /\ UNCHANGED <<mvars, npIn, npOut, fvars>>

GDisconnect(writeOk) ==
    /\ gadget.kind = "NoOp" => gadget.disconnectCalls < MaxCalls
    /\ LET d == GadgetDisconnect(gadget, sysfs, writeOk)
       IN  /\ gadget' = d.g
           /\ sysfs' = d.s
           /\ gop' = GOp("Disconnect", IF writeOk THEN "writable" ELSE "unwritable",
                         d.err, gadget, sysfs, d.s, FALSE, FALSE)
    /\ UNCHANGED <<mvars, ginit, gdead, npIn, npOut, fvars>>

GReconnect(writeOk) ==
    /\ gadget.kind = "NoOp" => gadget.reconnectCalls < MaxCalls
    /\ LET d == GadgetReconnect(gadget, sysfs, writeOk)
       IN  /\ gadget' = d.g
           /\ sysfs' = d.s
           /\ gop' = GOp("Reconnect", IF writeOk THEN "writable" ELSE "unwritable",
                         d.err, gadget, sysfs, d.s, FALSE, FALSE)
    /\ UNCHANGED <<mvars, ginit, gdead, npIn, npOut, fvars>>

GDestroy(writeOk, rmOk) ==
    /\ LET c == GadgetDestroy(gadget, sysfs, writeOk, rmOk)
       IN  /\ gadget' = c.g
           /\ sysfs' = c.s
           /\ gop' = GOp("destroy", "", FALSE, gadget, sysfs, c.s,
                         DestroyWriteFails(gadget, sysfs, writeOk),
                         DestroyRemoveFails(gadget, sysfs, rmOk))
    /\ gdead' = TRUE
    /\ UNCHANGED <<mvars, ginit, npIn, npOut, fvars>>

GIsConnected ==
    /\ gop' = GOp("IsConnected", IF IsConnected THEN "true" ELSE "false", FALSE,
                  gadget, sysfs, sysfs, FALSE, FALSE)
    /\ UNCHANGED <<mvars, gadget, sysfs, ginit, gdead, npIn, npOut, fvars>>

NextGadget ==
    \/ \E fp \in (IF gadget.kind = "NoOp" THEN {"none"} ELSE InitFailPoints) :
          GInitialize(fp)
    \/ \E writeOk \in WriteOutcomes(sysfs) : GDisconnect(writeOk)
    \/ \E writeOk \in WriteOutcomes(sysfs) : GReconnect(writeOk)
    \/ \E writeOk \in WriteOutcomes(sysfs), rmOk \in BOOLEAN : GDestroy(writeOk, rmOk)
    \/ GIsConnected
    \/ ResetCounts

SpecGadget == InitGadget /\ [][NextGadget]_vars

\* ------------------------------------------------------ normalizePath
\* The arguments: every string of at most MaxPathLen of these characters.
PathChars == {"/", ".", "a", "b"}
PathInputs == SeqsUpTo(PathChars, MaxPathLen)

InitPath ==
    /\ mgr = "none"
    /\ fsOpen = FALSE
    /\ gadget = NilGadget
    /\ sysfs = NoTree
    /\ files = <<>>
    /\ dirs = {}
    /\ muWriter = 0
    /\ muReaders = {}
    /\ pc = [p \in Procs |-> "idle"]
    /\ ret = [p \in Procs |-> NoRet]
    /\ ev = [p \in Procs |-> <<>>]
    /\ nw = [p \in Procs |-> 0]
    /\ rdPath = [p \in Procs |-> NoPath]
    /\ lastWrite = NoWrite
    /\ wlog = NoLog
    /\ leak = NoLeak
    /\ txDone = 0
    /\ gop = NoGOp
    /\ ginit = "never"
    /\ gdead = FALSE
    /\ npIn \in PathInputs
    /\ npOut = <<>>
    /\ hexIn = <<>>
    /\ hexOut = NoHex
    /\ wrIn = NoWrIn
    /\ wrOut = NoWrOut
    /\ stream = NoStream
    /\ lw = NoLoopback
    /\ macOut = NoMacOut
    /\ macIn = NoMac

\* normalizePath applied to the argument, then to its own last result.
Normalize ==
    /\ Len(npOut) < MaxApply
    /\ npOut' = Append(npOut, normalizePath(IF npOut = <<>> THEN npIn
                                            ELSE npOut[Len(npOut)]))
    /\ UNCHANGED <<mvars, gadget, sysfs, gop, ginit, gdead, npIn, fvars>>

\* Transaction.WriteFile of one byte to the argument, on the empty disk.
PathWrite ==
    /\ files = <<>>
    /\ dirs = {}
    /\ \E w \in {WriteFile(Disk, npIn, <<255>>, 1, <<"none", 0>>)} :
           /\ files' = w.fs.files
           /\ dirs' = w.fs.dirs
    /\ UNCHANGED <<mgr, fsOpen, muWriter, muReaders, pc, ret, ev, nw, rdPath,
                   lastWrite, wlog, leak, txDone, gadget, sysfs, gop, ginit, gdead,
                   npIn, npOut, fvars>>

NextPath ==
    \/ Normalize
    \/ PathWrite
SpecPath == InitPath /\ [][NextPath]_vars

\* ------------------------------------------- the gadget's identifiers
\* The identifiers of the configuration are texts "0x" followed by hex
\* digits; an identifier is the sequence of the values of its digits.
MaxDigits == 5
HexDigits == {0, 1, 15}
IdInputs == SeqsUpTo(HexDigits, MaxDigits)

RECURSIVE HexValue(_)
HexValue(ds) ==
    IF ds = <<>> THEN 0
    ELSE 16 * HexValue(SubSeq(ds, 1, Len(ds) - 1)) + ds[Len(ds)]

\* config.ParseHex: fmt.Sscanf(s, "0x%x", &val) wants one digit at least
\* and yields the value of the digits (an int of 64 bits; the inputs here
\* are far below its range).
ParseHex(ds) ==
    IF ds = <<>> THEN [ok |-> FALSE, val |-> 0]
    ELSE [ok |-> TRUE, val |-> HexValue(ds)]

\* The hex digits of v >= 0, without leading zeros (one digit for 0).
RECURSIVE HexDigitsOf(_)
HexDigitsOf(v) ==
    IF v < 16 THEN <<v>> ELSE Append(HexDigitsOf(v \div 16), v % 16)

\* fmt.Sprintf("0x%04x", v): the digits after "0x", padded with zeros on
\* the left up to four; a longer number keeps all its digits.
Sprintf04x(v) ==
    LET d == HexDigitsOf(v)
    IN  [i \in 1..(4 - Len(d)) |-> 0] \o d

InitHex ==
    /\ mgr = "none"
    /\ fsOpen = FALSE
    /\ gadget = NilGadget
    /\ sysfs = NoTree
    /\ files = <<>>
    /\ dirs = {}
    /\ muWriter = 0
    /\ muReaders = {}
    /\ pc = [p \in Procs |-> "idle"]
    /\ ret = [p \in Procs |-> NoRet]
    /\ ev = [p \in Procs |-> <<>>]
    /\ nw = [p \in Procs |-> 0]
    /\ rdPath = [p \in Procs |-> NoPath]
    /\ lastWrite = NoWrite
    /\ wlog = NoLog
    /\ leak = NoLeak
    /\ txDone = 0
    /\ gop = NoGOp
    /\ ginit = "never"
    /\ gdead = FALSE
    /\ npIn = <<>>
    /\ npOut = <<>>
    /\ hexIn \in IdInputs
    /\ hexOut = NoHex
    /\ wrIn = NoWrIn
    /\ wrOut = NoWrOut
    /\ stream = NoStream
    /\ lw = NoLoopback
    /\ macOut = NoMacOut
    /\ macIn = NoMac

\* main parses the identifier and, when ParseHex accepts it, Initialize
\* writes it to its attribute of the gadget.
WriteId ==
    /\ hexOut = NoHex
    /\ \E r \in {ParseHex(hexIn)} :
           hexOut' = IF r.ok
                     THEN [state |-> "written", val |-> r.val,
                           text |-> Sprintf04x(r.val)]
                     ELSE [state |-> "rejected", val |-> 0, text |-> <<>>]
    /\ UNCHANGED <<mvars, gadget, sysfs, gop, ginit, gdead, npIn, npOut, hexIn,
                   wrIn, wrOut, xvars>>

NextHex == WriteId
SpecHex == InitHex /\ [][NextHex]_vars

\* ------------------------------------------------- MAC address texts
\* A text is the sequence of its characters.  strings.ReplaceAll(s, old,
\* new) for a separator old of one character.
RECURSIVE ReplaceAll(_, _, _)
ReplaceAll(s, old, new) ==
    IF s = <<>> THEN <<>>
    ELSE (IF s[1] = old THEN new ELSE <<s[1]>>)
             \o ReplaceAll(SubSeq(s, 2, Len(s)), old, new)

MACFormats == {"MACFormatColon", "MACFormatHyphen", "MACFormatNone",
               "MACFormatUSBSerial"}

\* The six groups of cleaned, joined by sep (fmt.Sprintf of cleaned[0:2],
\* cleaned[2:4], ... cleaned[10:12]).
JoinGroups(cleaned, sep) ==
    SubSeq(cleaned, 1, 2) \o sep \o SubSeq(cleaned, 3, 4) \o sep
        \o SubSeq(cleaned, 5, 6) \o sep \o SubSeq(cleaned, 7, 8) \o sep
        \o SubSeq(cleaned, 9, 10) \o sep \o SubSeq(cleaned, 11, 12)

\* system.FormatMAC.
FormatMAC(mac, format) ==
    LET cleaned == ReplaceAll(ReplaceAll(mac, ":", <<>>), "-", <<>>)
    IN  CASE format = "MACFormatHyphen" -> ReplaceAll(mac, ":", <<"-">>)
          [] format = "MACFormatNone" -> cleaned
          [] format = "MACFormatUSBSerial" -> cleaned
          [] OTHER -> IF Len(cleaned) = 12 THEN JoinGroups(cleaned, <<":">>)
                      ELSE mac

\* Addresses of six octets, each octet one of two, written with colons,
\* with hyphens or bare.
Octets == {<<"a", "b">>, <<"0", "f">>}
MacDigits == {o[1] \o o[2] \o o[3] \o o[4] \o o[5] \o o[6] :
                  o \in [1..6 -> Octets]}
MacStyles == {<<":">>, <<"-">>, <<>>}
MacInputs == {JoinGroups(d, sep) : d \in MacDigits, sep \in MacStyles}

InitMac ==
    /\ mgr = "none"
    /\ fsOpen = FALSE
    /\ gadget = NilGadget
    /\ sysfs = NoTree
    /\ files = <<>>
    /\ dirs = {}
    /\ muWriter = 0
    /\ muReaders = {}
    /\ pc = [p \in Procs |-> "idle"]
    /\ ret = [p \in Procs |-> NoRet]
    /\ ev = [p \in Procs |-> <<>>]
    /\ nw = [p \in Procs |-> 0]
    /\ rdPath = [p \in Procs |-> NoPath]
    /\ lastWrite = NoWrite
    /\ wlog = NoLog
    /\ leak = NoLeak
    /\ txDone = 0
    /\ gop = NoGOp
    /\ ginit = "never"
    /\ gdead = FALSE
    /\ npIn = <<>>
    /\ npOut = <<>>
    /\ hexIn = <<>>
    /\ hexOut = NoHex
    /\ wrIn = NoWrIn
    /\ wrOut = NoWrOut
    /\ stream = NoStream
    /\ lw = NoLoopback
    /\ macOut = NoMacOut
    /\ macIn \in [mac : MacInputs, format : MACFormats]

CallFormatMAC ==
    /\ ~macOut.done
    /\ macOut' = [done |-> TRUE, text |-> FormatMAC(macIn.mac, macIn.format)]
    /\ UNCHANGED <<mvars, gadget, sysfs, gop, ginit, gdead, npIn, npOut, hexIn,
                   hexOut, wrIn, wrOut, macIn, lw, stream>>

NextMac == CallFormatMAC
SpecMac == InitMac /\ [][NextMac]_vars

\* ------------------------------------------ the two FilesystemWriters
EmptyFs == [files |-> <<>>, dirs |-> {}]

\* DiskfsFilesystemWriter.WriteFile on an open filesystem.
DiskfsWriteFile(fs, filePath, src, size) ==
    LET p   == normalizePath(filePath)
        dir == Dir(p)
        d   == IF dir # Root /\ dir # <<".">> THEN ensureDir(fs, dir, TRUE)
               ELSE FsOut(fs, "nil")
        o   == FsOpenFile(d.fs, p, WriteFlags, TRUE)
    IN  IF d.err # "nil" THEN FsOut(d.fs, d.err)
        ELSE IF o.err # "nil" THEN FsOut(o.fs, ErrCreateWrapped)
        ELSE FsOut(FsWrite(o.fs, p, CopyN(src, size)), "nil")

\* LoopbackFilesystemWriter.WriteFile on a mounted filesystem: MkdirAll of
\* the parent, the file created or truncated, then io.Copy of the whole
\* source; size is not used.
LoopbackWriteFile(fs, filePath, src, size) ==
    LET p   == normalizePath(filePath)
        dir == Dir(p)
        d   == IF dir # Root THEN ensureDir(fs, dir, TRUE) ELSE FsOut(fs, "nil")
    IN  IF d.err # "nil" THEN FsOut(d.fs, "failed to create directory")
        ELSE IF p = Root \/ p \in d.fs.dirs THEN FsOut(d.fs, ErrCreateWrapped)
        ELSE FsOut(PutFile(d.fs, p, src), "nil")

WriterInputsBoth ==
    [path : {<<"a">>, <<"/", "a">>, <<"d", "/", "a">>, <<>>},
     src  : Contents,
     size : 0..MaxLen]

InitWriters ==
    /\ mgr = "none"
    /\ fsOpen = FALSE
    /\ gadget = NilGadget
    /\ sysfs = NoTree
    /\ files = <<>>
    /\ dirs = {}
    /\ muWriter = 0
    /\ muReaders = {}
    /\ pc = [p \in Procs |-> "idle"]
    /\ ret = [p \in Procs |-> NoRet]
    /\ ev = [p \in Procs |-> <<>>]
    /\ nw = [p \in Procs |-> 0]
    /\ rdPath = [p \in Procs |-> NoPath]
    /\ lastWrite = NoWrite
    /\ wlog = NoLog
    /\ leak = NoLeak
    /\ txDone = 0
    /\ gop = NoGOp
    /\ ginit = "never"
    /\ gdead = FALSE
    /\ npIn = <<>>
    /\ npOut = <<>>
    /\ hexIn = <<>>
    /\ hexOut = NoHex
    /\ wrIn \in WriterInputsBoth
    /\ wrOut = NoWrOut
    /\ stream = NoStream
    /\ lw = NoLoopback
    /\ macOut = NoMacOut
    /\ macIn = NoMac

\* Each variant, begun on an empty filesystem, writes wrIn.
WriteDiskfs ==
    /\ wrOut.diskfs.err = "none"
    /\ wrOut' = [wrOut EXCEPT !.diskfs =
                    DiskfsWriteFile(EmptyFs, wrIn.path, wrIn.src, wrIn.size)]
    /\ UNCHANGED <<mvars, gadget, sysfs, gop, ginit, gdead, npIn, npOut, hexIn,
                   hexOut, wrIn, xvars>>

WriteLoopback ==
    /\ wrOut.loopback.err = "none"
    /\ wrOut' = [wrOut EXCEPT !.loopback =
                    LoopbackWriteFile(EmptyFs, wrIn.path, wrIn.src, wrIn.size)]
    /\ UNCHANGED <<mvars, gadget, sysfs, gop, ginit, gdead, npIn, npOut, hexIn,
                   hexOut, wrIn, xvars>>

NextWriters ==
    \/ WriteDiskfs
    \/ WriteLoopback

SpecWriters == InitWriters /\ [][NextWriters]_vars

\* ------------------------------- the LoopbackFilesystemWriter's life
\* Temporary directories are numbered in the order os.MkdirTemp makes
\* them; a writer makes MaxMounts of them at most.
MaxMounts == 2

LwOut(w, e) == [w |-> w, err |-> e]

\* Variant: Begin records the directory before mount has succeeded.
LoopbackBeginRecordsEarly(w, mkdirOk, mountOk) ==
    LET d == w.made + 1
    IN  IF ~mkdirOk THEN LwOut(w, "failed to create temp mount directory")
        ELSE IF ~mountOk
        THEN LwOut([w EXCEPT !.made = d, !.mountDir = d,
                             !.stray = @ @@ (d :> EmptyFs)],
                   "failed to mount loopback")
        ELSE LwOut([w EXCEPT !.made = d, !.mountDir = d,
                             !.tmpDirs = @ \cup {d}, !.mounts = @ \cup {d},
                             !.stray = @ @@ (d :> EmptyFs)], "nil")

\* LoopbackFilesystemWriter.Begin: os.MkdirTemp, then mount -o loop of the
\* image on the new directory; when mount fails the directory is removed.
LoopbackBegin(w, mkdirOk, mountOk) ==
    LET d == w.made + 1
    IN  IF ~mkdirOk THEN LwOut(w, "failed to create temp mount directory")
        ELSE IF ~mountOk
        THEN LwOut([w EXCEPT !.made = d], "failed to mount loopback")
        ELSE LwOut([w EXCEPT !.made = d, !.mountDir = d,
                             !.tmpDirs = @ \cup {d}, !.mounts = @ \cup {d},
                             !.stray = @ @@ (d :> EmptyFs)], "nil")

\* LoopbackFilesystemWriter.WriteFile: refused when mountDir is "";
\* otherwise the file is written below mountDir, which is the image while
\* it is mounted there and the directory itself when it is not.
LoopbackWriterWriteFile(w, filePath, src, size) ==
    IF w.mountDir = 0 THEN LwOut(w, "filesystem not mounted")
    ELSE IF w.mountDir \in w.mounts
    THEN LET r == LoopbackWriteFile(w.image, filePath, src, size)
         IN  LwOut([w EXCEPT !.image = r.fs], r.err)
    ELSE LET r == LoopbackWriteFile(w.stray[w.mountDir], filePath, src, size)
         IN  LwOut([w EXCEPT !.stray[w.mountDir] = r.fs], r.err)

\* Variant: End forgets the mount point whatever umount says.
LoopbackEndAlwaysClears(w, umountOk, rmOk) ==
    IF w.mountDir = 0 THEN LwOut(w, "nil")
    ELSE IF ~umountOk
    THEN LwOut([w EXCEPT !.mountDir = 0], "failed to unmount")
    ELSE IF ~rmOk
    THEN LwOut([w EXCEPT !.mounts = @ \ {w.mountDir}, !.mountDir = 0],
               "failed to remove temp directory")
    ELSE LwOut([w EXCEPT !.mounts = @ \ {w.mountDir},
                         !.tmpDirs = @ \ {w.mountDir},
                         !.mountDir = 0], "nil")

\* LoopbackFilesystemWriter.End: nothing to do when mountDir is ""; else
\* umount, then os.RemoveAll of the directory, then mountDir = "".  Each
\* failure returns at once with mountDir as it was.
LoopbackEnd(w, umountOk, rmOk) ==
    IF w.mountDir = 0 THEN LwOut(w, "nil")
    ELSE IF ~umountOk THEN LwOut(w, "failed to unmount")
    ELSE IF ~rmOk
    THEN LwOut([w EXCEPT !.mounts = @ \ {w.mountDir}],
               "failed to remove temp directory")
    ELSE LwOut([w EXCEPT !.mounts = @ \ {w.mountDir},
                         !.tmpDirs = @ \ {w.mountDir},
                         !.mountDir = 0], "nil")

\* umount of a directory nothing is mounted on fails.
UmountOutcomes(w) == IF w.mountDir \in w.mounts THEN BOOLEAN ELSE {FALSE}

\* What a call leaves: the writer as the code left it, whether a
\* successful Begin has not been followed by a successful End, and the
\* call itself with the mount point and that history before it.
AfterLwCall(op, r, begunNow) ==
    [r.w EXCEPT !.begun = begunNow,
                !.last = [op |-> op, err |-> r.err, pre |-> lw.mountDir,
                          wasBegun |-> lw.begun,
                          changed |-> (r.w.image # lw.image
                                       \/ r.w.stray # lw.stray
                                       \/ r.w.tmpDirs # lw.tmpDirs
                                       \/ r.w.mounts # lw.mounts
                                       \/ r.w.mountDir # lw.mountDir)]]

LwFrame ==
    UNCHANGED <<mvars, gadget, sysfs, gop, ginit, gdead, npIn, npOut, hexIn,
                hexOut, wrIn, wrOut, macIn, macOut, stream>>

LwBegin(mkdirOk, mountOk) ==
    /\ lw.made < MaxMounts
    /\ \E r \in {LoopbackBegin(lw, mkdirOk, mountOk)} :
           lw' = AfterLwCall("Begin", r, lw.begun \/ r.err = "nil")
    /\ LwFrame

LwWriteFile(filePath, src, size) ==
    /\ \E r \in {LoopbackWriterWriteFile(lw, filePath, src, size)} :
           lw' = AfterLwCall("WriteFile", r, lw.begun)
    /\ LwFrame

LwEnd(umountOk, rmOk) ==
    /\ \E r \in {LoopbackEnd(lw, umountOk, rmOk)} :
           lw' = AfterLwCall("End", r, lw.begun /\ r.err # "nil")
    /\ LwFrame

LwInputs ==
    [path : {<<"a">>, <<"d", "/", "a">>},
     src  : {<<0>>, <<255>>},
     size : {1}]

NextLoopback ==
    \/ \E mkdirOk \in BOOLEAN, mountOk \in BOOLEAN : LwBegin(mkdirOk, mountOk)
    \/ \E i \in LwInputs : LwWriteFile(i.path, i.src, i.size)
    \/ \E umountOk \in UmountOutcomes(lw), rmOk \in BOOLEAN :
           LwEnd(umountOk, rmOk)

SpecLoopback == Init /\ [][NextLoopback]_vars

\* -------------------------------- fn calling back into the Manager
\* fn, running under the exclusive lock of its BeginTransaction, calls
\* BeginTransaction, ReadFile or Close of the same Manager: the goroutine
\* enters that method and waits for m.mu there, as any caller does, while
\* it holds the lock itself.
FnCallsBeginTransaction(p) ==
    /\ pc[p] = "tx_fn"
    /\ pc' = [pc EXCEPT ![p] = "tx_lock"]
    /\ UNCHANGED <<mgr, fsOpen, gadget, sysfs, files, dirs, muWriter, muReaders,
                   ret, ev, nw, rdPath, lastWrite, wlog, leak, txDone>>
    /\ UNCHANGED hvars

FnCallsReadFile(p, filePath) ==
    /\ pc[p] = "tx_fn"
    /\ pc' = [pc EXCEPT ![p] = "rd_lock"]
    /\ rdPath' = [rdPath EXCEPT ![p] = filePath]
    /\ UNCHANGED <<mgr, fsOpen, gadget, sysfs, files, dirs, muWriter, muReaders,
                   ret, ev, nw, lastWrite, wlog, leak, txDone>>
    /\ UNCHANGED hvars

FnCallsClose(p) ==
    /\ pc[p] = "tx_fn"
    /\ pc' = [pc EXCEPT ![p] = "cl_lock"]
    /\ UNCHANGED <<mgr, fsOpen, gadget, sysfs, files, dirs, muWriter, muReaders,
                   ret, ev, nw, rdPath, lastWrite, wlog, leak, txDone>>
    /\ UNCHANGED hvars

\* Concurrent callers whose fn may call back into the Manager.
NextNested ==
    \/ Step(ConcurrentInputs)
    \/ \E p \in Procs : FnCallsBeginTransaction(p)
    \/ \E p \in Procs : \E filePath \in ConcurrentInputs.readPaths :
          FnCallsReadFile(p, filePath)
    \/ \E p \in Procs : FnCallsClose(p)

SpecNested == Init /\ [][NextNested]_vars

\* --------------------------------------------------- fn that panics
\* Concurrent callers whose fn always ends in a panic, which their caller
\* recovers from.
PanicInputs ==
    [procs      |-> Procs,
     kinds      |-> {"NoOp", "Linux"},
     writePaths |-> {<<"a">>},
     readPaths  |-> {<<"/", "a">>},
     contents   |-> {<<255>>},
     sizes      |-> {1},
     faults     |-> {<<"none", 0>>},
     results    |-> {"panic"}]

NextPanic == Step(PanicInputs)
SpecPanic == Init /\ [][NextPanic]_vars

\* ------------------------------------- the stream ReadFile returns
\* Variant: the file is closed when ReadFile gives up the lock.
ReturnedStreamClosed(p, path, data) ==
    [state |-> "dead", owner |-> p, path |-> path, data |-> data,
     last |-> NoRead]

\* return file, nil: the caller gets the open file of the backend; the
\* deferred RUnlock does not touch it.
ReturnedStream(p, path, data) ==
    [state |-> "open", owner |-> p, path |-> path, data |-> data,
     last |-> NoRead]

\* The caller of a successful ReadFile keeps the stream it is given (one
\* stream is followed at a time).
RdKeep(p) ==
    /\ pc[p] = "rd_unlock" /\ ret[p].err = "nil"
    /\ stream.state = "none"
    /\ stream' = ReturnedStream(p, normalizePath(rdPath[p]), ret[p].data)
    /\ UNCHANGED <<mvars, gadget, sysfs, gop, ginit, gdead, npIn, npOut, hexIn,
                   hexOut, wrIn, wrOut, macIn, macOut, lw>>

\* What a read of the stream may yield: the backend reads the image when
\* asked, without the Manager's lock, so next to the bytes the file held
\* when it was opened the read may see what the path holds now.
StreamBytes ==
    {stream.data} \cup (IF stream.path \in DOMAIN files
                        THEN {files[stream.path]} ELSE {})

\* The owner, back from ReadFile, reads from the stream: io.ReadAll(file).
StreamRead(p) ==
    /\ stream.state = "open" /\ stream.owner = p /\ pc[p] = "idle"
    /\ \E bytes \in StreamBytes :
           stream' = [stream EXCEPT !.last =
                         [done |-> TRUE, bytes |-> bytes,
                          duringFn |-> \E q \in Procs : pc[q] = "tx_fn",
                          lockHeld |-> p \in muReaders \/ muWriter = p,
                          rewritten |-> (stream.path \notin DOMAIN files
                                         \/ files[stream.path] # stream.data)]]
    /\ UNCHANGED <<mvars, gadget, sysfs, gop, ginit, gdead, npIn, npOut, hexIn,
                   hexOut, wrIn, wrOut, macIn, macOut, lw>>

\* The owner closes the stream: file.Close().
StreamClose(p) ==
    /\ stream.state = "open" /\ stream.owner = p /\ pc[p] = "idle"
    /\ stream' = NoStream
    /\ UNCHANGED <<mvars, gadget, sysfs, gop, ginit, gdead, npIn, npOut, hexIn,
                   hexOut, wrIn, wrOut, macIn, macOut, lw>>

StreamInputs ==
    [procs      |-> Procs,
     kinds      |-> {"NoOp"},
     writePaths |-> {<<"a">>},
     readPaths  |-> {<<"/", "a">>},
     contents   |-> {<<0>>, <<255>>},
     sizes      |-> {1},
     faults     |-> {<<"none", 0>>},
     results    |-> FnResults]

\* Concurrent callers; the first goroutine keeps the streams it gets.
StreamOwners == {1}

NextStream ==
    \/ Step(StreamInputs)
    \/ \E p \in StreamOwners : RdKeep(p)
    \/ \E p \in StreamOwners : StreamRead(p)
    \/ \E p \in StreamOwners : StreamClose(p)

SpecStream == Init /\ [][NextStream]_vars

\* ------------------------------------------------------- properties
\* The number of calls of the gadget method name in the calls e of one
\* BeginTransaction.
CountEv(e, name) == Cardinality({i \in 1..Len(e) : e[i][1] = name})

DisconnectFailed(p) == ev[p] = << <<"Disconnect", "err">> >>

\* C1: at most one transaction body fn is executing at any time.
MutualExclusion ==
    \A p, q \in Procs : (pc[p] = "tx_fn" /\ pc[q] = "tx_fn") => p = q

MutualExclusionWitness ==
    \E p, q \in Procs : p # q /\ pc[p] = "tx_fn" /\ nw[p] > 0 /\ pc[q] = "tx_lock"

\* C2: while a transaction body is executing (and so whenever WriteFile
\* changes the disk) the gadget is not connected.
DisconnectedDuringFn ==
    \A p \in Procs : pc[p] = "tx_fn" => ~IsConnected

DisconnectedDuringFnWitness ==
    \E p \in Procs : pc[p] = "tx_fn" /\ nw[p] > 0 /\ DOMAIN files # {}

\* C3: when Disconnect succeeded, Reconnect has been called after fn was
\* left and before BeginTransaction returns, whether fn returned nil,
\* returned an error or panicked.
ReconnectAfterFn ==
    \A p \in Procs :
        (pc[p] = "tx_unlock" /\ ReachedFn(ev[p])) =>
            /\ Len(ev[p]) = 3
            /\ ev[p][2][1] = "fn"
            /\ ev[p][2][2] \in FnResults
            /\ ev[p][3][1] = "Reconnect"

ReconnectAfterFnWitness ==
    \E p \in Procs :
        /\ pc[p] = "tx_unlock"
        /\ Len(ev[p]) = 3
        /\ ev[p][2] = <<"fn", "panic">>
        /\ ev[p][3][1] = "Reconnect"

\* C4 as stated: whenever a BeginTransaction that got past Disconnect
\* returns, the gadget is connected.
LinkRestoredAtReturn ==
    \A p \in Procs : (pc[p] = "tx_unlock" /\ ReachedFn(ev[p])) => IsConnected

\* C4 as amended: whenever a BeginTransaction that got past Disconnect
\* returns, Reconnect has been attempted, and the gadget is connected
\* exactly when that Reconnect succeeded, which it always does on the
\* simulated gadget.
LinkRestoredWhenReconnectSucceeds ==
    \A p \in Procs :
        (pc[p] = "tx_unlock" /\ ReachedFn(ev[p])) =>
            /\ Len(ev[p]) = 3
            /\ ev[p][3][1] = "Reconnect"
            /\ IsConnected <=> ev[p][3][2] = "ok"
            /\ gadget.kind = "NoOp" => ev[p][3][2] = "ok"

LinkRestoredWitness ==
    \E p \in Procs :
        /\ pc[p] = "tx_unlock"
        /\ Len(ev[p]) = 3
        /\ ev[p][2] = <<"fn", "fnErr">>
        /\ ev[p][3] = <<"Reconnect", "ok">>
        /\ gadget.kind = "Linux"
        /\ IsConnected

\* C5: when Disconnect returns an error, fn is not called, no file or
\* directory changes, Reconnect is not attempted, and BeginTransaction
\* releases the lock and returns the wrapped disconnect error.
FailSafeState ==
    \A p \in Procs :
        (Len(ev[p]) >= 1 /\ ev[p][1] = <<"Disconnect", "err">>) =>
            /\ pc[p] = "tx_unlock"
            /\ Len(ev[p]) = 1
            /\ nw[p] = 0
            /\ ret[p] = Err(ErrDisconnectWrapped)

FailSafeStep ==
    \A p \in Procs :
        /\ (DisconnectFailed(p) \/ DisconnectFailed(p)') =>
               (files' = files /\ dirs' = dirs)
        /\ (DisconnectFailed(p) /\ ~DisconnectFailed(p)') =>
               (pc'[p] = "idle" /\ muWriter' = 0 /\ gadget' = gadget)

FailSafeOnDisconnectError == []FailSafeState /\ [][FailSafeStep]_vars

FailSafeWitness ==
    \E p \in Procs :
        /\ DisconnectFailed(p)
        /\ pc[p] = "tx_unlock"
        /\ DOMAIN files # {}

\* C6: a BeginTransaction that reaches fn calls Disconnect once and
\* Reconnect once however many WriteFile calls fn makes, so that on the
\* simulated gadget both counters equal the number of transactions
\* completed since ResetCounts (plus the one in progress, if any).
OneDisconnectOneReconnect ==
    /\ \A p \in Procs :
           (pc[p] = "tx_unlock" /\ ReachedFn(ev[p])) =>
               /\ CountEv(ev[p], "Disconnect") = 1
               /\ CountEv(ev[p], "Reconnect") = 1
    /\ gadget.kind = "NoOp" =>
           LET inFn == {p \in Procs : pc[p] \in {"tx_fn", "tx_reconnect"}}
               back == {p \in Procs : pc[p] = "tx_unlock" /\ ReachedFn(ev[p])}
           IN  /\ gadget.disconnectCalls
                      = txDone + Cardinality(inFn) + Cardinality(back)
               /\ gadget.reconnectCalls = txDone + Cardinality(back)

OneDisconnectOneReconnectWitness ==
    \E p \in Procs :
        /\ gadget.kind = "NoOp"
        /\ pc[p] = "tx_unlock"
        /\ nw[p] >= 2
        /\ txDone = 1
        /\ gadget.disconnectCalls = 2
        /\ gadget.reconnectCalls = 2

\* C7: when Disconnect succeeded, BeginTransaction returns exactly what fn
\* returned, also when Reconnect failed, and the Reconnect step changes no
\* file that fn wrote.
ResultIsFnResultState ==
    \A p \in Procs :
        (pc[p] = "tx_unlock" /\ ReachedFn(ev[p])) =>
            /\ Len(ev[p]) = 3
            /\ ret[p] = Err(ev[p][2][2])

ResultIsFnResultStep ==
    \A p \in Procs :
        (pc[p] = "tx_reconnect" /\ pc'[p] = "tx_unlock") =>
            (files' = files /\ dirs' = dirs)

ResultIsFnResult == []ResultIsFnResultState /\ [][ResultIsFnResultStep]_vars

ResultIsFnResultWitness ==
    \E p \in Procs :
        /\ pc[p] = "tx_unlock"
        /\ Len(ev[p]) = 3
        /\ ev[p][2] = <<"fn", "nil">>
        /\ ev[p][3] = <<"Reconnect", "err">>
        /\ ret[p] = Err("nil")
        /\ nw[p] > 0
        /\ DOMAIN files # {}

\* C8: with a nil filesystem (never opened, or cleared by Close)
\* BeginTransaction and ReadFile return ErrDiskNotInitialized without a
\* panic, and BeginTransaction calls neither fn nor the gadget.
NotInitializedIsReported ==
    \A p \in Procs :
        ~fsOpen =>
            /\ pc[p] \notin {"tx_fn", "tx_reconnect"}
            /\ pc[p] = "tx_unlock" =>
                   (ret[p] = Err(ErrDiskNotInitialized) /\ ev[p] = <<>> /\ nw[p] = 0)
            /\ pc[p] = "rd_unlock" => ret[p] = Err(ErrDiskNotInitialized)

NotInitializedWitness ==
    \E p \in Procs :
        /\ mgr = "literal"
        /\ gadget.kind = "nil"
        /\ pc[p] = "tx_unlock"
        /\ ret[p] = Err(ErrDiskNotInitialized)

\* The same path argument, with or without the leading "/".
SamePath(q, w) == q = w \/ q = Root \o w \/ w = Root \o q

\* C9: after a WriteFile of the bytes b to the path p with size = len(b)
\* has succeeded, ReadFile of p, given with or without the leading "/",
\* yields exactly b, whatever the path held before.  The replacement of an
\* earlier, longer content is the work of the backend's O_TRUNC (FsOpenFile).
RoundTrip ==
    \A p \in Procs :
        (/\ pc[p] = "rd_unlock"
         /\ fsOpen
         /\ lastWrite.valid
         /\ SamePath(rdPath[p], lastWrite.path)) =>
            ret[p] = [err |-> "nil", data |-> lastWrite.data]

RoundTripWitness ==
    \E p \in Procs :
        /\ pc[p] = "rd_unlock"
        /\ fsOpen
        /\ lastWrite.valid
        /\ lastWrite.path = <<"a">>
        /\ rdPath[p] = <<"/", "a">>
        /\ lastWrite.data = <<>>
        /\ ret[p] = [err |-> "nil", data |-> <<>>]

\* C10 as stated: ReadFile of a path at which no file has been written, on
\* an initialised disk, returns ErrFileNotFound.
UnwrittenPathIsNotFound ==
    \A p \in Procs :
        (/\ pc[p] = "rd_unlock"
         /\ fsOpen
         /\ normalizePath(rdPath[p]) \notin DOMAIN files) =>
            ret[p] = Err(ErrFileNotFound)

\* The goroutines inside a write-locked section: a transaction from its nil
\* check to its return, or Close from destroy to its return.
InWriteSection(p) ==
    pc[p] \in {"tx_begin", "tx_fn", "tx_reconnect", "tx_unlock",
               "cl_destroy", "cl_unlock"}

\* The goroutines inside the read-locked section of ReadFile.
InReadSection(p) == pc[p] \in {"rd_open", "rd_unlock"}

\* C11: no ReadFile is inside its lock-protected section while a
\* transaction (its body included) or Close is inside its own.
ReadersExcludeWriters ==
    \A p, q \in Procs : ~(InReadSection(p) /\ InWriteSection(q))

ReadersExcludeWritersWitness ==
    \E p, q \in Procs :
        /\ p # q
        /\ pc[p] = "rd_unlock"
        /\ ret[p].err = "nil"
        /\ pc[q] = "tx_lock"

\* C12 as stated: when Close returns it returns no error, the filesystem
\* handle is nil and the gadget is not connected.
CloseLeavesDisconnected ==
    \A p \in Procs :
        pc[p] = "cl_unlock" =>
            (ret[p] = Err("nil") /\ ~fsOpen /\ ~IsConnected)

\* What Close does establish: it returns no error and clears the filesystem
\* handle; afterwards the gadget is connected only if it is the hardware
\* gadget and the write of its Disconnect failed in this Close (or in an
\* earlier one that removed the tree all the same), and the hardware
\* gadget's tree is gone unless its removal failed; a further Close
\* changes nothing unless that removal failed.
CloseState ==
    \A p \in Procs :
        pc[p] = "cl_unlock" =>
            /\ ret[p] = Err("nil")
            /\ ~fsOpen
            /\ gop.op = "Close"
            /\ IsConnected <=>
                   \/ gop.wfail
                   \/ /\ gop.pre.kind = "Linux"
                      /\ gop.pre.connected
                      /\ gop.preS.tree = "absent"
            /\ gadget.kind = "NoOp" => ~IsConnected
            /\ gadget.kind = "Linux" => (sysfs.tree = "absent" <=> ~gop.rfail)

CloseAgainStep ==
    \A p \in Procs :
        (/\ pc[p] = "cl_destroy"
         /\ pc'[p] = "cl_unlock"
         /\ ~fsOpen
         /\ gop.op = "Close"
         /\ ~gop.rfail) =>
            (gadget' = gadget /\ sysfs' = sysfs /\ fsOpen' = fsOpen
             /\ files' = files /\ dirs' = dirs)

CloseIdempotent == []CloseState /\ [][CloseAgainStep]_vars

CloseIdempotentWitness ==
    \E p \in Procs :
        /\ pc[p] = "cl_unlock"
        /\ gop.op = "Close"
        /\ gop.note = "again"
        /\ gadget.kind = "Linux"
        /\ gadget.udcName # ""
        /\ ~IsConnected
        /\ sysfs.tree = "absent"

\* New has failed and its Initialize had created the gadget's tree.
NewFailedAfterCreating ==
    /\ mgr = "failed"
    /\ gop.note = "initfail"
    /\ gop.preS.tree = "absent"
    /\ gop.mid.tree = "own"

IdempotentLinkOps ==
    /\ (gop.op = "Disconnect" /\ ~gop.pre.connected) =>
           (~gop.err /\ ~IsConnected /\ sysfs = gop.preS)
    /\ (gop.op = "Reconnect" /\ gop.pre.connected) =>
           (~gop.err /\ IsConnected /\ sysfs = gop.preS)

IdempotentLinkOpsWitness ==
    /\ gadget.kind = "Linux"
    /\ ginit = "ok"
    /\ gop.op = "Disconnect"
    /\ ~gop.pre.connected
    /\ gop.note = "unwritable"
    /\ sysfs.tree = "own"
    /\ ~gop.err

\* C14 as stated: Reconnect of a gadget whose Initialize never succeeded
\* returns an error and leaves the gadget not connected.
ReconnectNeedsInitialize ==
    (gop.op = "Reconnect" /\ ginit # "ok") => (gop.err /\ ~IsConnected)

\* C15 as stated: once destroy has been called the gadget is not connected,
\* whatever is called on it afterwards short of a new Initialize.
DestroyedIsTerminal == gdead => ~IsConnected

\* C16: a hardware gadget that is connected, or whose Reconnect has just
\* succeeded, has its UDC name, and a UDC name once stored is not changed
\* by Disconnect, Reconnect, destroy or IsConnected.
BindingState ==
    gadget.kind = "Linux" =>
        /\ IsConnected => gadget.udcName # ""
        /\ (gop.op = "Reconnect" /\ ~gop.err) => gadget.udcName # ""

BindingStep ==
    (/\ gadget.kind = "Linux"
     /\ gadget.udcName # ""
     /\ gop'.op \in {"Disconnect", "Reconnect", "destroy", "IsConnected"}) =>
        gadget'.udcName = gadget.udcName

BindingStable == []BindingState /\ [][BindingStep]_vars

BindingStableWitness ==
    /\ gadget.kind = "Linux"
    /\ gop.op = "Reconnect"
    /\ ~gop.err
    /\ ~gop.pre.connected
    /\ gdead
    /\ gadget.udcName = "udc0"

\* C17: Initialize of the hardware gadget, when the gadget directory
\* exists, returns the error "already configured" and changes neither the
\* gadget (a fresh one keeps no UDC name and stays not connected) nor the
\* tree.
InitializeConflict ==
    (gop.op = "Initialize" /\ gop.pre.kind = "Linux" /\ gop.preS.tree # "absent") =>
        /\ gop.err
        /\ gop.note = "already configured"
        /\ gadget = gop.pre
        /\ sysfs = gop.preS
        /\ gop.pre = NewLinuxUsbGadget => (gadget.udcName = "" /\ ~IsConnected)

InitializeConflictWitness ==
    /\ gop.op = "Initialize"
    /\ gop.pre = NewLinuxUsbGadget
    /\ gop.preS.tree = "foreign"
    /\ gop.err
    /\ sysfs = gop.preS

\* C19 as stated: destroy of a gadget whose Initialize was never called, or
\* never finished, leaves the gadget not connected and removes no tree
\* that this gadget did not create.
DestroyUninitializedIsSafe ==
    (gop.op = "destroy" /\ ginit # "ok") =>
        /\ ~gop.err
        /\ ~IsConnected
        /\ gop.preS.tree = "foreign" => sysfs = gop.preS
        /\ ginit = "never" => sysfs = gop.preS

\* C20: normalizePath applied to its own result returns that result:
\* normalizePath(normalizePath(p)) = normalizePath(p) for every p.
NormalizeIdempotent ==
    /\ \A i \in 1..Len(npOut) : npOut[i] = npOut[1]
    /\ normalizePath(normalizePath(npIn)) = normalizePath(npIn)

NormalizeIdempotentWitness ==
    /\ npIn = <<".", ".", "/", "a", "/">>
    /\ Len(npOut) = 2
    /\ npOut[1] = <<"/", "a">>
    /\ npOut[2] = <<"/", "a">>

\* The reference form of a path, computed on its segments: the path is
\* split at "/", empty segments and "." are dropped, ".." removes the
\* segment before it (nothing at the root), and the rest is joined.
ApplySeg(stack, seg) ==
    IF seg = <<>> \/ seg = <<".">> THEN stack
    ELSE IF seg = <<".", ".">>
    THEN IF stack = <<>> THEN stack ELSE SubSeq(stack, 1, Len(stack) - 1)
    ELSE Append(stack, seg)

RECURSIVE RefWalk(_, _, _, _)
RefWalk(p, i, seg, stack) ==
    IF i > Len(p) THEN ApplySeg(stack, seg)
    ELSE IF p[i] = "/" THEN RefWalk(p, i + 1, <<>>, ApplySeg(stack, seg))
    ELSE RefWalk(p, i + 1, Append(seg, p[i]), stack)

RECURSIVE JoinSegs(_)
JoinSegs(stack) ==
    IF stack = <<>> THEN <<>>
    ELSE Root \o Head(stack) \o JoinSegs(Tail(stack))

RefNormalize(p) ==
    LET st == RefWalk(p, 1, <<>>, <<>>)
    IN  IF st = <<>> THEN Root ELSE JoinSegs(st)

\* q is absolute, has no ".", ".." or empty segment, and ends in "/" only
\* when it is the root.
WellFormed(q) ==
    /\ Len(q) > 0
    /\ q[1] = "/"
    /\ q # Root => q[Len(q)] # "/"
    /\ \A i \in 1..(Len(q) - 1) : q[i] = "/" =>
          /\ q[i + 1] # "/"
          /\ ~(q[i + 1] = "." /\ (i + 1 = Len(q) \/ q[i + 2] = "/"))
          /\ ~(/\ i + 2 <= Len(q)
               /\ q[i + 1] = "."
               /\ q[i + 2] = "."
               /\ (i + 2 = Len(q) \/ q[i + 3] = "/"))

\* C21: normalizePath returns the reference form of its argument (a "/"
\* put in front when missing, then the lexical clean): the result is
\* absolute, has no ".", ".." or empty segment and no trailing "/" unless
\* it is the root; "a/b" gives "/a/b", "/a/./b" gives "/a/b", "/a/../b"
\* gives "/b", "//a" gives "/a"; and the file WriteFile creates, and
\* ReadFile opens, is the one at that form of the path given.
NormalizedForm ==
    /\ \A i \in 1..Len(npOut) :
          npOut[i] = RefNormalize(npIn) /\ WellFormed(npOut[i])
    /\ normalizePath(<<"a", "/", "b">>) = <<"/", "a", "/", "b">>
    /\ normalizePath(<<"/", "a", "/", ".", "/", "b">>) = <<"/", "a", "/", "b">>
    /\ normalizePath(<<"/", "a", "/", ".", ".", "/", "b">>) = <<"/", "b">>
    /\ normalizePath(<<"/", "/", "a">>) = <<"/", "a">>
    /\ DOMAIN files \subseteq {RefNormalize(npIn)}
    /\ \A d \in dirs : WellFormed(d)
    /\ files # <<>> => ReadFile(Disk, TRUE, npIn) = [err |-> "nil", data |-> <<255>>]

NormalizedFormWitness ==
    /\ npIn = <<"a", "/", ".", "/", "b">>
    /\ Len(npOut) >= 1
    /\ npOut[1] = <<"/", "a", "/", "b">>
    /\ DOMAIN files = {<<"/", "a", "/", "b">>}
    /\ dirs = {<<"/", "a">>}

\* C22: WriteFile(path, source, size) stores the first min(size,
\* len(source)) bytes of the source: unless the backend fails, the call
\* returns nil also when the source ends before size bytes, the file at
\* the normalized path begins with those bytes, and a file that did not
\* exist before holds nothing else (no byte of the source beyond size).
WriteStoresPrefix ==
    LET l  == wlog.last
        np == normalizePath(l.path)
        n  == IF l.size < Len(l.src) THEN l.size ELSE Len(l.src)
    IN  /\ (l.err # "none" /\ l.fault = "none" /\ np # Root) => l.err = "nil"
        /\ l.err = "nil" =>
              /\ np \in DOMAIN files
              /\ Len(files[np]) >= n
              /\ SubSeq(files[np], 1, n) = SubSeq(l.src, 1, n)
              /\ l.fresh => Len(files[np]) = n

WriteStoresPrefixWitness ==
    /\ wlog.last.path = <<"d", "/", "a">>
    /\ wlog.last.src = <<0, 255>>
    /\ wlog.last.size = 1
    /\ wlog.last.err = "nil"
    /\ wlog.last.fresh
    /\ files[<<"/", "d", "/", "a">>] = <<0>>

\* C23: a WriteFile that fails because the disk has no room left returns
\* an error that is ErrDiskFull, and so does BeginTransaction when fn
\* returns it.
DiskFullIsReported ==
    wlog.last.fault = "full" => wlog.last.err = ErrDiskFull

\* C24: a WriteFile or ReadFile whose path argument is the empty string
\* fails with ErrInvalidPath.
EmptyPathIsInvalid ==
    /\ (wlog.last.err # "none" /\ wlog.last.path = <<>>) =>
          wlog.last.err = ErrInvalidPath
    /\ \A p \in Procs :
          (pc[p] = "rd_unlock" /\ fsOpen /\ rdPath[p] = <<>>) =>
              ret[p] = Err(ErrInvalidPath)

\* The goroutines inside ClearFiles, from the lock to the return.
InClearSection(p) ==
    pc[p] \in {"clr_begin", "clr_format", "clr_reconnect", "clr_unlock"}

\* What ClearFiles establishes: it runs alone under the write lock, the
\* gadget is disconnected while the filesystem is recreated, Reconnect
\* has been called by the time it returns once Disconnect succeeded, and
\* after a successful run no file or directory is left.
ClearFilesState ==
    \A p \in Procs :
        /\ InClearSection(p) =>
              /\ muWriter = p /\ muReaders = {}
              /\ \A q \in Procs \ {p} : ~InWriteSection(q) /\ ~InReadSection(q)
                                          /\ ~InClearSection(q)
        /\ pc[p] = "clr_format" => ~IsConnected
        /\ (pc[p] = "clr_unlock" /\ ReachedFn(ev[p])) =>
              CountEv(ev[p], "Reconnect") = 1
        /\ (InClearSection(p) /\ ret[p].err = "nil") => (files = <<>> /\ dirs = {})

ClearFilesStateWitness ==
    \E p \in Procs :
        /\ pc[p] = "clr_unlock"
        /\ ret[p].err = "nil"
        /\ lastWrite.valid
        /\ lastWrite.path = <<"d", "/", "a">>
        /\ ev[p] = << <<"Disconnect", "ok">>, <<"Reconnect", "ok">> >>

\* C25: ClearFiles holds the exclusive lock, disconnects the gadget before
\* it recreates the filesystem, attempts Reconnect on every way out, and
\* after it succeeds every previously written path reads as not found.
ClearFilesDiscipline ==
    /\ ClearFilesState
    /\ \A p \in Procs :
          (InClearSection(p) /\ ret[p].err = "nil" /\ lastWrite.valid) =>
              ReadFile(Disk, fsOpen, lastWrite.path) = Err(ErrFileNotFound)

\* C26: nothing is rolled back.  While a transaction runs and when it
\* returns, also after a later WriteFile of it has failed and fn returned
\* the error, every file it wrote successfully (and did not write again)
\* is on the disk with the content it had when its WriteFile returned.
PartialCommit ==
    \A p \in Procs :
        pc[p] \in {"tx_fn", "tx_reconnect", "tx_unlock"} =>
            \A q \in DOMAIN wlog.kept :
                q \in DOMAIN files /\ files[q] = wlog.kept[q]

PartialCommitWitness ==
    \E p \in Procs :
        /\ pc[p] = "tx_unlock"
        /\ ret[p].err = "fnErr"
        /\ nw[p] = 2
        /\ wlog.failed
        /\ DOMAIN wlog.kept = {<<"/", "d", "/", "a">>}
        /\ files[<<"/", "d", "/", "a">>] = <<0, 255>>

\* C27: every call returns.  A goroutine inside BeginTransaction, ReadFile
\* or Close, waiting for the lock or holding it, is eventually back from
\* its call, whatever the other goroutines call; a BeginTransaction gets
\* there only by acquiring the lock and running to its end.
CallsReturn ==
    \A p \in Procs : (pc[p] # "idle") ~> (pc[p] = "idle")

CallsReturnWitness ==
    /\ pc[1] = "tx_lock"
    /\ pc[2] = "tx_fn"
    /\ muWriter = 2

\* C28: a WriteFile made through a Transaction after the BeginTransaction
\* that created it has returned does not modify the disk; every change
\* made through a Transaction is made with the exclusive lock held and
\* the gadget disconnected.
HandleDeadAfterReturn ==
    leak.called =>
        /\ ~leak.changed
        /\ leak.changed => (leak.locked /\ ~leak.connected)

\* C29: every identifier that ParseHex accepts and Initialize writes is a
\* 16-bit value, written as exactly four hex digits after "0x".
IdIsFourDigits ==
    hexOut.state = "written" =>
        /\ hexOut.val < 65536
        /\ Len(hexOut.text) = 4

\* C30: for the same path, source and size the two writers store the same
\* content: the first min(size, len(source)) bytes of the source.
WritersAgree ==
    (wrOut.diskfs.err # "none" /\ wrOut.loopback.err # "none") =>
        /\ wrOut.diskfs.fs = wrOut.loopback.fs
        /\ \A q \in DOMAIN wrOut.loopback.fs.files :
              wrOut.loopback.fs.files[q] =
                  SubSeq(wrIn.src, 1, IF wrIn.size < Len(wrIn.src) THEN wrIn.size
                                      ELSE Len(wrIn.src))

\* The hex digits of an address text, whatever separates them.
MacDigitsOf(mac) == SelectSeq(mac, LAMBDA c : c \notin {":", "-"})

SeparatorOf(format) ==
    CASE format = "MACFormatColon" -> <<":">>
      [] format = "MACFormatHyphen" -> <<"-">>
      [] OTHER -> <<>>

\* C31: for an address of twelve hex digits written with colons, with
\* hyphens or bare, FormatMAC returns the digits in the requested format,
\* whatever the style of the input: groups of two joined by ":" for
\* MACFormatColon, by "-" for MACFormatHyphen, and the bare digits for
\* MACFormatNone and MACFormatUSBSerial.
FormatMACIndependent ==
    macOut.done =>
        macOut.text = JoinGroups(MacDigitsOf(macIn.mac),
                                 SeparatorOf(macIn.format))

\* C32, in a state: while Close destroys the gadget and clears the handle
\* no other call is between its Lock and its Unlock (so no fn is running);
\* once a Close has cleared the handle no fn runs and no deferred Reconnect
\* is pending, a BeginTransaction that got the lock returns
\* ErrDiskNotInitialized with no gadget call made, and a ReadFile that got
\* the lock returns ErrDiskNotInitialized.
CloseSerializedState ==
    \A p \in Procs :
        /\ pc[p] \in {"cl_destroy", "cl_unlock"} =>
               \A q \in Procs \ {p} :
                   pc[q] \notin {"tx_begin", "tx_fn", "tx_reconnect",
                                 "tx_unlock", "rd_open", "rd_unlock",
                                 "cl_destroy", "cl_unlock"}
        /\ gop.op = "Close" =>
               /\ pc[p] \notin {"tx_fn", "tx_reconnect"}
               /\ pc[p] = "tx_unlock" =>
                      (ret[p] = Err(ErrDiskNotInitialized) /\ ev[p] = <<>>)
               /\ pc[p] = "rd_unlock" => ret[p] = Err(ErrDiskNotInitialized)

\* C32, in a step: after a Close no step connects the gadget, and no step
\* calls its Disconnect or Reconnect.
CloseSerializedStep ==
    gop.op = "Close" =>
        /\ gadget'.connected => gadget.connected
        /\ gadget'.reconnectCalls <= gadget.reconnectCalls
        /\ gadget'.disconnectCalls <= gadget.disconnectCalls

\* C32: Close is serialized with transactions, and after Close every
\* BeginTransaction and ReadFile returns ErrDiskNotInitialized without
\* calling fn, Disconnect or Reconnect: the gadget is not reconnected.
CloseSerialized == []CloseSerializedState /\ [][CloseSerializedStep]_vars

\* On a Manager that New had made usable and a first Close has closed: a
\* BeginTransaction that got the lock afterwards is about to return
\* ErrDiskNotInitialized, no gadget call made, while a ReadFile waits.
CloseSerializedWitness ==
    \E p \in Procs :
        /\ mgr = "ready"
        /\ gop.op = "Close"
        /\ gop.note = "first"
        /\ pc[p] = "tx_unlock"
        /\ ret[p] = Err(ErrDiskNotInitialized)
        /\ ev[p] = <<>>
        /\ \E q \in Procs : pc[q] = "rd_lock"

\* C33: LoopbackFilesystemWriter.WriteFile called when no successful Begin
\* has happened since construction or since the last successful End
\* returns "filesystem not mounted" and creates or changes no file; called
\* after a successful Begin and before the next successful End it is not
\* refused in that way; so files change only in the latter case.
LoopbackWritesOnlyMounted ==
    lw.last.op = "WriteFile" =>
        /\ ~lw.last.wasBegun =>
               (lw.last.err = "filesystem not mounted" /\ ~lw.last.changed)
        /\ lw.last.wasBegun => lw.last.err # "filesystem not mounted"
        /\ lw.last.changed => (lw.last.wasBegun /\ lw.last.err = "nil")

\* After Begin, a write and a successful End, a second Begin has failed
\* and WriteFile has been refused; the image keeps the file written while
\* it was mounted.
LoopbackWritesOnlyMountedWitness ==
    /\ lw.last.op = "WriteFile"
    /\ lw.last.err = "filesystem not mounted"
    /\ ~lw.last.wasBegun
    /\ lw.made = 2
    /\ lw.tmpDirs = {}
    /\ lw.image.files # <<>>

\* C34: End on a writer that is not mounted returns success and changes
\* nothing; a successful End on a mounted writer clears the mount point
\* (so that the next End is of the first kind); an End whose umount fails
\* returns the error and leaves the writer as it was, the mount point
\* still recorded.
LoopbackEndRetryable ==
    lw.last.op = "End" =>
        /\ lw.last.pre = 0 => (lw.last.err = "nil" /\ ~lw.last.changed)
        /\ lw.last.err = "nil" => lw.mountDir = 0
        /\ lw.last.err = "failed to unmount" =>
               /\ lw.mountDir = lw.last.pre
               /\ lw.mountDir # 0
               /\ lw.begun
               /\ ~lw.last.changed

\* An End whose umount failed while the image was mounted: the writer is
\* still mounted on its directory, and holds the file written before.
LoopbackEndRetryableWitness ==
    /\ lw.last.op = "End"
    /\ lw.last.err = "failed to unmount"
    /\ lw.mountDir = 1
    /\ lw.mountDir \in lw.mounts
    /\ lw.image.files # <<>>

\* C35: the stream a successful ReadFile returned is open once the call
\* has returned and its shared lock is released; its owner can read from
\* it then whatever the state of the Manager's lock, and no read is made
\* under the lock: bytes are read while a later fn runs and writes.
StreamOutlivesLock ==
    /\ stream.state # "dead"
    /\ (stream.state = "open" /\ pc[stream.owner] = "idle") =>
           /\ stream.owner \notin muReaders
           /\ ENABLED StreamRead(stream.owner)
    /\ stream.last.done => ~stream.last.lockHeld

\* A read of the stream made while another goroutine is in fn and has
\* written other bytes to the path the stream was opened on.
StreamOutlivesLockWitness ==
    /\ stream.state = "open"
    /\ stream.last.done
    /\ stream.last.duringFn
    /\ stream.last.rewritten
    /\ \E q \in Procs \ {stream.owner} :
           /\ pc[q] = "tx_fn"
           /\ muWriter = q
           /\ wlog.last.err = "nil"
           /\ normalizePath(wlog.last.path) = stream.path

\* Goroutine p waits for the Manager's lock inside a method that its own
\* fn has called, holding the exclusive lock of the outer BeginTransaction.
InNestedCall(p) ==
    muWriter = p /\ pc[p] \in {"tx_lock", "rd_lock", "cl_lock"}

WaitsForLock(q) == pc[q] \in {"tx_lock", "rd_lock", "cl_lock"}

\* C36, in a state: while a goroutine is in a nested call the gadget is
\* disconnected and every other goroutine is outside the Manager or waits
\* for the lock.
NotReentrantState ==
    \A p \in Procs :
        InNestedCall(p) =>
            /\ ~IsConnected
            /\ \A q \in Procs \ {p} : pc[q] = "idle" \/ WaitsForLock(q)

\* C36, in a step: a nested call stays where it is, the lock stays with
\* its goroutine, the gadget stays disconnected, and no call that waits
\* for the lock gets it.
NotReentrantStep ==
    \A p \in Procs :
        InNestedCall(p) =>
            /\ pc'[p] = pc[p]
            /\ muWriter' = p
            /\ muReaders' = {}
            /\ ~gadget'.connected
            /\ \A q \in Procs : WaitsForLock(q) => pc'[q] = pc[q]

\* C36: a fn that calls BeginTransaction, ReadFile or Close of its own
\* Manager blocks for ever in that call: the outer BeginTransaction never
\* returns, the gadget stays disconnected, and every later
\* BeginTransaction, ReadFile and Close blocks too.
NotReentrant == []NotReentrantState /\ [][NotReentrantStep]_vars

\* fn has called ReadFile and waits for the read lock under its own write
\* lock, and a Close called by another goroutine waits as well.
NotReentrantWitness ==
    \E p, q \in Procs :
        /\ p # q
        /\ muWriter = p
        /\ pc[p] = "rd_lock"
        /\ pc[q] = "cl_lock"
        /\ ~IsConnected
        /\ ev[p] = << <<"Disconnect", "ok">> >>

\* New has failed because the hardware gadget's Initialize found a gadget
\* directory of its short name in place; Initialize changed nothing.
NewFailedOnConflict ==
    /\ mgr = "failed"
    /\ gop.op = "New"
    /\ gop.note = "initfail"
    /\ gop.pre.kind = "Linux"
    /\ gop.preS.tree = "foreign"
    /\ gop.mid = gop.preS

WriteNotAtomic ==
    LET l    == wlog.last
        np   == normalizePath(l.path)
        data == CopyN(l.src, l.size)
    IN  l.err = ErrWriteWrapped =>
            /\ l.fault \in CopyFaults
            /\ np \in DOMAIN files
            /\ Len(files[np]) < Len(data)
            /\ files[np] = SubSeq(data, 1, Len(files[np]))

\* The second write of a transaction to one path failed in its copy: the
\* two bytes stored by the first are gone and the file is empty.
WriteNotAtomicWitness ==
    /\ wlog.last.err = ErrWriteWrapped
    /\ ~wlog.last.fresh
    /\ wlog.last.path = <<"d", "/", "a">>
    /\ wlog.kept = <<>>
    /\ files[<<"/", "d", "/", "a">>] = <<>>

\* C39, in a state, every fn ending in a panic: a BeginTransaction about
\* to unlock after fn has called Reconnect after the panic and passes the
\* panic on; the lock is held while Reconnect runs; no goroutine that is
\* back from its call holds the lock; and a BeginTransaction or ReadFile
\* waiting for the lock while nobody else is inside the Manager gets it.
PanicUnwindsState ==
    \A p \in Procs :
        /\ (pc[p] = "tx_unlock" /\ ReachedFn(ev[p])) =>
               /\ Len(ev[p]) = 3
               /\ ev[p][2] = <<"fn", "panic">>
               /\ ev[p][3][1] = "Reconnect"
               /\ ret[p] = Err("panic")
               /\ muWriter = p
        /\ pc[p] = "tx_reconnect" => muWriter = p
        /\ pc[p] = "idle" => (muWriter # p /\ p \notin muReaders)
        /\ (\A q \in Procs \ {p} : pc[q] = "idle") =>
               /\ pc[p] = "tx_lock" => ENABLED TxLock(p)
               /\ pc[p] = "rd_lock" => ENABLED RdLock(p)

\* C39, in a step: the deferred Unlock releases the lock as the goroutine
\* leaves BeginTransaction.
PanicUnwindsStep ==
    \A p \in Procs :
        (pc[p] = "tx_unlock" /\ pc'[p] # "tx_unlock") =>
            (pc'[p] = "idle" /\ muWriter' = 0)

\* C39: a panic of fn does not wedge the Manager: Reconnect is attempted,
\* then the lock is released and the panic goes on to the caller, and a
\* later BeginTransaction or ReadFile gets the lock and runs as usual.
PanicUnwinds == []PanicUnwindsState /\ [][PanicUnwindsStep]_vars

\* On the simulated gadget, one transaction has left fn by a panic and
\* returned; a second one has disconnected the gadget and is inside fn.
PanicUnwindsWitness ==
    \E q \in Procs :
        /\ gadget.kind = "NoOp"
        /\ txDone = 1
        /\ gadget.reconnectCalls = 1
        /\ gadget.disconnectCalls = 2
        /\ pc[q] = "tx_fn"
        /\ muWriter = q
        /\ ev[q] = << <<"Disconnect", "ok">> >>

=============================================================================
